---- MODULE Spec2Model ----
(***************************************************************************)
(* News-In-kB: the ingestion job (/src/jobs/newsJob.js) as a state         *)
(* machine.  One run of fetchAndStoreNews takes the candidate list of the  *)
(* feed sampler, pushes it through processWithConcurrency and, per         *)
(* candidate, through handleOneArticle: duplicate pre-check, scrape,       *)
(* summarize, Article.create.  The Article collection is shared by every   *)
(* run; its unique index on link is the only coordination between runs.    *)
(*                                                                         *)
(* Granularity: Node delivers an I/O completion only when the microtask    *)
(* queue is empty, and runs each continuation to its next await.  An       *)
(* action is therefore either one I/O completion with the synchronous code *)
(* that follows it, or the promise reaction at the head of the microtask   *)
(* queue (`jobs`).                                                         *)
(*                                                                         *)
(* Strings are modelled by what the job reads of them: a link by an        *)
(* identity (0 is the empty string), a title by its characters, scraped    *)
(* content and summary by their length.                                    *)
(*                                                                         *)
(* The summarizer (/src/services/summarizer.js) and the feed sampler       *)
(* (/src/services/rssFetcher.js) are modelled call by call, each under a   *)
(* specification of its own; there a text is a sequence of tokens, which   *)
(* is what the clean-up's patterns read.                                   *)
(***************************************************************************)
EXTENDS Integers, Sequences, FiniteSets, TLC

\* ---------------------------------------------------------------- bounds
\* Longest candidate list the feed sampler hands to a run of Spec.
MaxItems == 6
\* Most candidates of one list that carry both a link and a title.
MaxComplete == 2
\* Longest candidate list given to a pool whose worker calls may reject.
MaxPoolItems == 7
\* Most worker calls of a run checked for completion that await anything.
MaxAwaiting == 1
\* Most known selectors that match on a page.
MaxMatches == 2
\* Most <p> elements on a page.
MaxParagraphs == 2
\* Most Article documents constructed.
MaxDocs == 3
\* Last millisecond of the clock.
MaxClock == 2
\* Largest page size a client asks for.
MaxLimit == 2
\* Longest candidate list of each of the two overlapping runs of SpecRace.
MaxRaceItems == 1
\* Longest model list the summarizer is configured with.
MaxModels == 3
\* Longest text X (in tokens) a completion carries after its lead-in.
MaxText == 2
\* Most feeds configured in RSS_URL_TOP_STORIES.
MaxFeeds == 2
\* Largest rotation among the shuffles pickRandomItems is checked with.
MaxRotate == 1
\* Largest number estimatedDocumentCount answers.
MaxCount == 11
\* Most times the cron task fires.
MaxFires == 2
\* Most articles the backend answers fetchAllArticles with.
MaxArticles == 3
\* Most setScope calls that await buildSnapshot at a time.
MaxPending == 2

\* ------------------------------------------------------ program constants
MIN_CONTENT_LEN == 200
CONCURRENCY == 5
MIN_SUMMARY_LEN == 10
MIN_TEXT_LEN == 40
BACKOFF_MS == 400
INITIAL_LIMIT == 100
INITIAL_PICK == 10
RECUR_LIMIT == 50
RECUR_PICK == 4
\* scraper.js: `if (articleText.length > 200) break`
SUBSTANTIAL == 200
\* scraper.js: `if (!articleText || articleText.length < 200)`
FALLBACK_BELOW == 200
\* scraper.js: `.filter(p => p.length > 50)`
MIN_PARAGRAPH == 50
\* newsRoute.js: hard cap on the page size
MAX_LIMIT == 100
\* script.js: safety cap on the pages a client asks for
MAX_PAGES_CAP == 1000
INITIAL_THRESHOLD_DEFAULT == 10

\* The runs that may overlap: the scheduler's cron callback does not wait
\* for the previous run.
Runs == {1, 2}

VARIABLES
  store,     \* the Article collection: a set of documents
  runPc,     \* per run: position of fetchAndStoreNews
  articles,  \* per run: the list fetchRSSArticles returned
  queue,     \* per run: processWithConcurrency's queue (indexes into articles)
  active,    \* per run: processWithConcurrency's active counter
  results,   \* per run: processWithConcurrency's results array
  pc,        \* per run and candidate: position of handleOneArticle
  ret,       \* per run and candidate: the value handleOneArticle returned
  calls,     \* per run and candidate: the calls made for it, in order
  scope,     \* per run and candidate: handleOneArticle's locals existing,
             \* content, summary and the caught error e
  stats,     \* per run: the stats object of the run summary ({} = not computed)
  retval,    \* per run: what fetchAndStoreNews resolved with ({} = undefined)
  jobs,      \* the microtask queue: promise reactions waiting to run, FIFO
  MODELS,    \* summarizer.js: the configured model list
  text,      \* summarizeContent: length of its argument
  idx,       \* summarizeContent: index into MODELS (0-based)
  turns,     \* summarizeContent: the loop counter
  lastErr,   \* summarizeContent: the last error caught ({} = undefined)
  raw,       \* callOnce: content of the last completion
  out,       \* summarizeContent: what the last callOnce resolved with
  sPc,       \* position of summarizeContent
  called,    \* the provider calls made so far: the models, in order
  last,      \* how the last provider call ended
  seen,      \* every way a provider call of this summarize call has ended
  slept,     \* milliseconds of sleep() since the last provider call
  summary,   \* what summarizeContent resolved with ({} = not yet)
  earlier,   \* whether a summarizeContent call returned before this one
  rssFeeds,  \* rssFetcher.js: the configured feeds, each with what it serves
  mode,      \* fetchRSSArticles: its argument
  feedNo,    \* fetchRSSArticles: position of the loop over rssFeeds
  allArticles, \* fetchRSSArticles: the samples pushed so far
  samples,   \* per feed: what fetchOne returned for it
  fPc,       \* position of fetchRSSArticles
  sampled,   \* what fetchRSSArticles resolved with ({} = not yet)
  page,      \* scraper.js: what the request for the article's page brings
  ePc,       \* position of extractContentFromLink
  extracted, \* what extractContentFromLink resolved with ({} = not yet)
  now,       \* the clock, in milliseconds
  docs,      \* the Article documents constructed so far
  nPc,       \* position of the client that pages through GET /news
  pageLimit, \* the client's page size
  snapshot,  \* the snapshot the first page answered with ({} = none yet)
  totalPages, \* the totalPages the first page answered with
  got,       \* per page number: the articles the client received
  env,       \* scheduler.js: the environment the process was started with
  bPc,       \* position of boot
  bootCount, \* boot: its local count
  initialRun, \* the fetchAndStoreNews('initial') call of boot
  scheduled, \* whether cron.schedule has registered the recurring task
  recurring, \* the fetchAndStoreNews('recurring') calls started so far
  closing,   \* whether shutdown awaits mongoose.connection.close()
  navScope,  \* script.js: scope
  snapshotIds, \* script.js: snapshotIds
  navIdx,    \* script.js: idx
  atEnd,     \* script.js: atEnd
  card,      \* what newsContainer shows
  cacheRef,  \* script.js: cacheRef
  readMap,   \* the ids with a read marker in localStorage
  pending    \* the buildSnapshot calls that await ensureCache, by caller

jobVars == <<store, runPc, articles, queue, active, results, pc, ret, calls,
             scope, stats, retval, jobs>>

summarizerVars == <<MODELS, text, idx, turns, lastErr, raw, out, sPc, called,
                    last, seen, slept, summary, earlier>>

samplerVars == <<rssFeeds, mode, feedNo, allArticles, samples, fPc, sampled>>

scraperVars == <<page, ePc, extracted>>

newsVars == <<now, docs, nPc, pageLimit, snapshot, totalPages, got>>

schedulerVars == <<env, bPc, bootCount, initialRun, scheduled, recurring,
                   closing>>

frontendVars == <<navScope, snapshotIds, navIdx, atEnd, card, cacheRef, readMap,
                  pending>>

vars == <<jobVars, summarizerVars, samplerVars, scraperVars, newsVars,
          schedulerVars, frontendVars>>

\* What each component leaves alone: the components share no state.
notJobVars == <<summarizerVars, samplerVars, scraperVars, newsVars,
                schedulerVars, frontendVars>>
notSummarizerVars == <<jobVars, samplerVars, scraperVars, newsVars,
                       schedulerVars, frontendVars>>
notSamplerVars == <<jobVars, summarizerVars, scraperVars, newsVars,
                    schedulerVars, frontendVars>>
notScraperVars == <<jobVars, summarizerVars, samplerVars, newsVars,
                    schedulerVars, frontendVars>>
notNewsVars == <<jobVars, summarizerVars, samplerVars, scraperVars,
                 schedulerVars, frontendVars>>
notSchedulerVars == <<jobVars, summarizerVars, samplerVars, scraperVars,
                      newsVars, frontendVars>>
notFrontendVars == <<jobVars, summarizerVars, samplerVars, scraperVars,
                     newsVars, schedulerVars>>

\* ---------------------------------------------------------------- strings
\* A title is a sequence of characters; " " is whitespace.
Titles == {<<>>, <<" ">>, <<" ", "T">>}

RECURSIVE TrimLeft(_)
TrimLeft(s) ==
  IF Len(s) > 0 /\ Head(s) = " " THEN TrimLeft(Tail(s)) ELSE s

RECURSIVE TrimRight(_)
TrimRight(s) ==
  IF Len(s) > 0 /\ s[Len(s)] = " " THEN TrimRight(SubSeq(s, 1, Len(s) - 1)) ELSE s

\* mongoose's `trim: true` setter
Trim(s) == TrimRight(TrimLeft(s))

\* Lengths the scraper may return for content, the summarizer for summary.
ContentLens == {0, MIN_CONTENT_LEN - 1, MIN_CONTENT_LEN}
SummaryLens == {0, MIN_SUMMARY_LEN - 1, MIN_SUMMARY_LEN}

\* -------------------------------------------------------------- candidates
\* The candidates with a link at position i of a list: the i-th link of
\* the feeds under any title.
LinkedAt(i) == [link : {i}, title : Titles]

\* A candidate without a link (0 is the empty string).
Linkless == [link |-> 0, title |-> <<" ", "T">>]

\* `!article?.link || !article?.title`
MissingFields(a) == a.link = 0 \/ a.title = <<>>

\* fetchRSSArticles' dedup key: a.link || `${a.title}::${a.source}`
DedupKey(a) == IF a.link # 0 THEN <<"link", a.link>> ELSE <<"title", a.title>>

\* A list the sampler can return: no two entries share a dedup key.
Deduped(l) == \A i, j \in 1..Len(l) : i # j => DedupKey(l[i]) # DedupKey(l[j])

Complete(l) == {i \in 1..Len(l) : ~MissingFields(l[i])}

\* The candidates with both fields come first in the list.
CompleteFirst(l) ==
  \A i, j \in 1..Len(l) : i < j /\ MissingFields(l[i]) => MissingFields(l[j])

\* The lists of k candidates with links.
RECURSIVE LinkedLists(_)
LinkedLists(k) ==
  IF k = 0 THEN {<<>>}
  ELSE { l \in { Append(m, c) : m \in LinkedLists(k - 1), c \in LinkedAt(k) } :
           CompleteFirst(l) /\ Cardinality(Complete(l)) <= MaxComplete }

\* The lists fetchRSSArticles can return, up to length n, that are checked:
\* candidates with both fields, then candidates without a title, then
\* possibly one without a link, no two sharing a dedup key.
CandidateLists(n) ==
  { l \in UNION { LinkedLists(k) \cup
                  (IF k = 0 THEN {} ELSE { Append(m, Linkless) : m \in LinkedLists(k - 1) })
                  : k \in 0..n } :
      Deduped(l) }

\* ----------------------------------------------------------------- results
\* What handleOneArticle returns: {saved:true}, {skipped:reason}, {error:true}.
Result(sv, sk, er) == [saved |-> sv, skipped |-> sk, error |-> er]
NoResult == Result(FALSE, "", FALSE)
Saved == Result(TRUE, "", FALSE)
Skipped(reason) == Result(FALSE, reason, FALSE)
Errored == Result(FALSE, "", TRUE)

Reasons == {"missing_fields", "duplicate", "short_content", "bad_summary",
            "duplicate_race"}

InFlightPcs == {"start", "findOne", "extract", "summarize", "create"}

Job(kind, r, i) == [kind |-> kind, run |-> r, item |-> i]

\* ------------------------------------------------------------------- store
\* The document Article.create is given, after the schema's setters; `from`
\* records the length of the content the summary was made from.
Document(a, summaryLen, contentLen) ==
  [link |-> a.link, title |-> Trim(a.title), summary |-> summaryLen,
   from |-> contentLen]

\* Schema validation: title, link and summary are required.
Valid(doc) == doc.title # <<>> /\ doc.link # 0 /\ doc.summary > 0

\* Article.findOne({ link })
Existing(link) == \E d \in store : d.link = link

\* Mutant: the job replaces the collection by what it saves.
ReplacedAll(st, doc) == {doc}

\* Article.create resolved: the collection with the document inserted.
Inserted(st, doc) == st \cup {doc}

\* An Article an earlier run stored.
PreStored ==
  Document([link |-> 1, title |-> <<"O">>], MIN_SUMMARY_LEN, MIN_CONTENT_LEN)

\* handleOneArticle's locals before its first await.
NoScope == [existing |-> FALSE, content |-> 0, summary |-> 0, e |-> ""]

\* The environment with MONGO_URI set and NEWS_CRON unset, so that CRON_EXPR
\* is the default expression.
DefaultEnv ==
  [MONGO_URI |-> TRUE, NEWS_CRON |-> "unset", INITIAL_THRESHOLD |-> "unset"]

\* cacheRef before the first cache: null, which is never dereferenced.
NoCache == [order |-> <<>>, map |-> {}]

\* No buildSnapshot call awaits ensureCache.
NoBuild == [boot |-> 0, setScope |-> 0]

\* A URL as origin and path: "" for a missing part.
NoUrl == <<"", "">>

\* A document without any of the elements extractContentFromLink looks for.
NoPage == [matches |-> <<>>, paragraphs |-> <<>>, boilerplate |-> 0,
           og |-> NoUrl, twitter |-> NoUrl, img |-> NoUrl]

\* ------------------------------------------------------------------- init
\* No fetchRSSArticles call has been made.
SamplerIdle ==
  /\ mode = "recurring"
  /\ feedNo = 0
  /\ allArticles = <<>>
  /\ samples = <<>>
  /\ fPc = "idle"
  /\ sampled = {}

\* No summarizeContent call has been made.
SummarizerIdle ==
  /\ text = 0
  /\ idx = 0
  /\ turns = 0
  /\ lastErr = {}
  /\ raw = <<>>
  /\ out = <<>>
  /\ sPc = "idle"
  /\ called = <<>>
  /\ last = ""
  /\ seen = {}
  /\ slept = 0
  /\ summary = {}
  /\ earlier = FALSE

\* No extractContentFromLink call has been made.
ScraperIdle ==
  /\ ePc = "idle"
  /\ extracted = {}

\* No client has asked for a page, and the clock stands at its origin.
NewsIdle ==
  /\ now = 0
  /\ nPc = "idle"
  /\ pageLimit = 1
  /\ snapshot = {}
  /\ totalPages = 0
  /\ got = <<>>

\* The scheduler process has not been started.
SchedulerIdle ==
  /\ bPc = "idle"
  /\ bootCount = 0
  /\ initialRun = "none"
  /\ scheduled = FALSE
  /\ recurring = <<>>
  /\ closing = FALSE

\* The page has not been loaded.
FrontendIdle ==
  /\ navScope = "unread"
  /\ snapshotIds = <<>>
  /\ navIdx = 0
  /\ atEnd = FALSE
  /\ card = <<"none">>
  /\ cacheRef = NoCache
  /\ readMap = {}
  /\ pending = NoBuild

Init ==
  /\ store \in {{}, {PreStored}}
  /\ runPc = [r \in Runs |-> "idle"]
  /\ articles = [r \in Runs |-> <<>>]
  /\ queue = [r \in Runs |-> <<>>]
  /\ active = [r \in Runs |-> 0]
  /\ results = [r \in Runs |-> <<>>]
  /\ pc = [r \in Runs |-> <<>>]
  /\ ret = [r \in Runs |-> <<>>]
  /\ calls = [r \in Runs |-> <<>>]
  /\ scope = [r \in Runs |-> <<>>]
  /\ stats = [r \in Runs |-> {}]
  /\ retval = [r \in Runs |-> {}]
  /\ jobs = <<>>
  /\ MODELS = <<1>>
  /\ SummarizerIdle
  /\ rssFeeds = <<>>
  /\ SamplerIdle
  /\ page = NoPage
  /\ ScraperIdle
  /\ docs = <<>>
  /\ NewsIdle
  /\ env = DefaultEnv
  /\ SchedulerIdle
  /\ FrontendIdle

\* ------------------------------------------------- processWithConcurrency
\* Mutant: the pool resolves as soon as the queue is empty.
ResolvesOnEmptyQueue(q, a) == Len(q) = 0

\* Mutant: the pool never resolves.
ResolvesNever(q, a) == FALSE

\* `if (queue.length === 0 && active === 0) return resolve(results)`
Resolves(q, a) == Len(q) = 0 /\ a = 0

\* Mutant: `while (active <= concurrency && queue.length)`.
DispatchCountInclusive(q, a) ==
  IF a <= CONCURRENCY
    THEN IF Len(q) < CONCURRENCY + 1 - a THEN Len(q) ELSE CONCURRENCY + 1 - a
    ELSE 0

\* Mutant: `if (active < concurrency && queue.length)`, one item per call.
DispatchCountOne(q, a) == IF a < CONCURRENCY /\ Len(q) > 0 THEN 1 ELSE 0

\* `while (active < concurrency && queue.length)`: how many items one call
\* of next() shifts off the queue.
DispatchCount(q, a) ==
  IF a < CONCURRENCY
    THEN IF Len(q) < CONCURRENCY - a THEN Len(q) ELSE CONCURRENCY - a
    ELSE 0

\* Mutant: `queue.pop()`, the k items at the end of the queue, last first.
Popped(q, k) == [j \in 1..k |-> q[Len(q) + 1 - j]]

\* `queue.shift()`, k times: the k items at the head of the queue, in order.
Shifted(q, k) == SubSeq(q, 1, k)

\* One call of next() for run r, entered with queue q, counter a, the
\* candidates' positions p and the microtask queue js.  A promise resolves
\* once: resolve() on a resolved promise does nothing.
PoolNext(r, q, a, p, js) ==
  IF Resolves(q, a)
    THEN /\ runPc' = [runPc EXCEPT ![r] =
                        IF @ \in {"idle", "pool"} THEN "resolved" ELSE @]
         /\ jobs' = IF runPc[r] \in {"idle", "pool"}
                      THEN Append(js, Job("tally", r, 0)) ELSE js
         /\ queue' = [queue EXCEPT ![r] = q]
         /\ active' = [active EXCEPT ![r] = a]
         /\ pc' = [pc EXCEPT ![r] = p]
    ELSE LET k == DispatchCount(q, a)
             items == Shifted(q, k)
             taken == {items[j] : j \in 1..k}
         IN
         /\ runPc' = [runPc EXCEPT ![r] = IF @ = "idle" THEN "pool" ELSE @]
         /\ jobs' = js \o [j \in 1..k |-> Job("worker", r, items[j])]
         /\ queue' = [queue EXCEPT ![r] = SelectSeq(q, LAMBDA i : i \notin taken)]
         /\ active' = [active EXCEPT ![r] = a + k]
         /\ pc' = [pc EXCEPT ![r] =
                     [i \in DOMAIN p |-> IF i \in taken THEN "start" ELSE p[i]]]

\* Mutant: a candidate that ended in error is queued again.
RequeuedOnError(i, res) == IF res.error THEN <<i>> ELSE <<>>

\* The items the pool puts back on the queue when a worker settles: none.
Requeued(i, res) == <<>>

\* Head of the microtask queue: the worker of candidate i of run r has
\* settled; `.then((r) => results.push(r))` or, for a worker that rejected,
\* `.catch((e) => results.push(Promise.reject(e)))`, and then
\* `.finally(() => { active--; next(); })`.  handleOneArticle catches every
\* exception of its try block, so the `.catch` reaction runs only when its
\* catch block throws (WorkerRejects).
Settle ==
  /\ UNCHANGED notJobVars
  /\ jobs # <<>>
  /\ Head(jobs).kind = "settle"
  /\ LET r == Head(jobs).run
         i == Head(jobs).item
     IN /\ results' = [results EXCEPT ![r] = Append(@, ret[r][i])]
        /\ PoolNext(r, queue[r] \o Requeued(i, ret[r][i]), active[r] - 1,
                    [pc[r] EXCEPT ![i] = "settled"], Tail(jobs))
  /\ UNCHANGED <<store, articles, ret, calls, scope, stats, retval>>

\* -------------------------------------------------------- handleOneArticle
\* handleOneArticle returns res for candidate i of run r: its promise
\* resolves and the pool's reaction is queued.
Return(r, i, res, js) ==
  /\ ret' = [ret EXCEPT ![r][i] = res]
  /\ pc' = [pc EXCEPT ![r][i] = "returned"]
  /\ jobs' = Append(js, Job("settle", r, i))

\* What `.catch((e) => results.push(Promise.reject(e)))` pushes: a promise,
\* on which saved, skipped and error are all undefined.
RejectedPromise == Result(FALSE, "", FALSE)

\* The worker call of candidate i of run r rejects: a call to the store that
\* handleOneArticle awaits rejects with a reason that is null or undefined,
\* and its catch block throws a TypeError on reading `err.message`.  The
\* pool's `.catch` reaction is queued.
WorkerRejects(r, i) ==
  /\ UNCHANGED notJobVars
  /\ jobs = <<>>
  /\ i \in DOMAIN pc[r]
  /\ pc[r][i] \in {"findOne", "create"}
  /\ Return(r, i, RejectedPromise, jobs)
  /\ scope' = [scope EXCEPT ![r][i].e = "falsy"]
  /\ UNCHANGED <<store, runPc, articles, queue, active, results, calls, stats,
                 retval>>

\* handleOneArticle awaits the call `what` for candidate i of run r.
Await(r, i, what, js) ==
  /\ calls' = [calls EXCEPT ![r][i] = Append(@, what)]
  /\ pc' = [pc EXCEPT ![r][i] = what]
  /\ jobs' = js

\* Head of the microtask queue: `.then(() => worker(item))`; handleOneArticle
\* runs to its first await.
WorkerStarts ==
  /\ UNCHANGED notJobVars
  /\ jobs # <<>>
  /\ Head(jobs).kind = "worker"
  /\ LET r == Head(jobs).run
         i == Head(jobs).item
         c == [calls EXCEPT ![r][i] = Append(@, "worker")]
     IN IF MissingFields(articles[r][i])
          THEN /\ Return(r, i, Skipped("missing_fields"), Tail(jobs))
               /\ calls' = c
          ELSE /\ calls' = [c EXCEPT ![r][i] = Append(@, "findOne")]
               /\ pc' = [pc EXCEPT ![r][i] = "findOne"]
               /\ jobs' = Tail(jobs)
               /\ UNCHANGED ret
  /\ UNCHANGED <<store, runPc, articles, queue, active, results, scope, stats,
                 retval>>

\* Mutant: no outer catch; the pool's `.catch` pushes a rejected promise,
\* which carries none of saved, skipped, error.
OnThrowUncaught == NoResult

\* The outer catch of handleOneArticle: what it returns for an exception.
OnThrow == Errored

\* Mutant: the pre-check's answer is not acted on.
PreCheckIgnored(existing) == FALSE

\* `if (existing) return { skipped: 'duplicate' }`
PreCheckStops(existing) == existing

\* Article.findOne settles: it rejects, or resolves with the document of
\* that link or with null; on null the scrape is started.
FindOneReturns(r, i) ==
  /\ UNCHANGED notJobVars
  /\ jobs = <<>>
  /\ i \in DOMAIN pc[r]
  /\ pc[r][i] = "findOne"
  /\ \/ /\ scope' = [scope EXCEPT ![r][i].e = "other"]
        /\ Return(r, i, OnThrow, jobs)
        /\ UNCHANGED calls
     \/ LET existing == Existing(articles[r][i].link) IN
        /\ scope' = [scope EXCEPT ![r][i].existing = existing]
        /\ IF PreCheckStops(existing)
             THEN Return(r, i, Skipped("duplicate"), jobs) /\ UNCHANGED calls
             ELSE Await(r, i, "extract", jobs) /\ UNCHANGED ret
  /\ UNCHANGED <<store, runPc, articles, queue, active, results, stats, retval>>

\* Mutant: content of exactly MIN_CONTENT_LEN characters is short too.
ShortContentInclusive(len) == len = 0 \/ len <= MIN_CONTENT_LEN

\* `!content || content.length < MIN_CONTENT_LEN`
ShortContent(len) == len = 0 \/ len < MIN_CONTENT_LEN

\* extractContentFromLink resolves with content of len characters; the
\* local `content` is live only when the gate passes.
ExtractReturnsWith(r, i, len) ==
  /\ UNCHANGED notJobVars
  /\ jobs = <<>>
  /\ i \in DOMAIN pc[r]
  /\ pc[r][i] = "extract"
  /\ IF ShortContent(len)
       THEN /\ Return(r, i, Skipped("short_content"), jobs)
            /\ UNCHANGED <<calls, scope>>
       ELSE /\ scope' = [scope EXCEPT ![r][i].content = len]
            /\ Await(r, i, "summarize", jobs)
            /\ UNCHANGED ret
  /\ UNCHANGED <<store, runPc, articles, queue, active, results, stats, retval>>

\* extractContentFromLink resolves with content of some length (it never
\* rejects).
ExtractReturns(r, i) == \E len \in ContentLens : ExtractReturnsWith(r, i, len)

\* Mutant: `!summary` alone.
BadSummaryEmptyOnly(len) == len = 0

\* `!summary || summary.length < 10`
BadSummary(len) == len = 0 \/ len < MIN_SUMMARY_LEN

\* summarizeContent resolves with a summary of len characters; the local
\* `summary` is live only when the gate passes.
SummarizeReturnsWith(r, i, len) ==
  /\ UNCHANGED notJobVars
  /\ jobs = <<>>
  /\ i \in DOMAIN pc[r]
  /\ pc[r][i] = "summarize"
  /\ IF BadSummary(len)
       THEN /\ Return(r, i, Skipped("bad_summary"), jobs)
            /\ UNCHANGED <<calls, scope>>
       ELSE /\ scope' = [scope EXCEPT ![r][i].summary = len]
            /\ Await(r, i, "create", jobs)
            /\ UNCHANGED ret
  /\ UNCHANGED <<store, runPc, articles, queue, active, results, stats, retval>>

\* summarizeContent resolves with a summary of some length (it never
\* rejects).
SummarizeReturns(r, i) == \E len \in SummaryLens : SummarizeReturnsWith(r, i, len)

\* Mutant: the inner catch rethrows E11000 like any other error.
OnDuplicateKeyRethrown == Errored

\* `if (e && e.code === 11000) return { skipped: 'duplicate_race' }`
OnDuplicateKey == Skipped("duplicate_race")

\* Article.create rejected with e: the inner catch returns for E11000 and
\* rethrows anything else to the outer catch.
OnWriteError(e) == IF e = "E11000" THEN OnDuplicateKey ELSE OnThrow

\* Article.create settles: the document fails validation, the unique index
\* on link rejects it (E11000), the write fails for another reason, or the
\* document is inserted.  The insert happens exactly when create resolves.
CreateReturns(r, i) ==
  /\ UNCHANGED notJobVars
  /\ jobs = <<>>
  /\ i \in DOMAIN pc[r]
  /\ pc[r][i] = "create"
  /\ LET doc == Document(articles[r][i], scope[r][i].summary, scope[r][i].content)
     IN \/ \E e \in {"ValidationError", "E11000", "other"} :
             /\ e = "ValidationError" <=> ~Valid(doc)
             /\ e = "E11000" => Existing(doc.link)
             /\ scope' = [scope EXCEPT ![r][i].e = e]
             /\ Return(r, i, OnWriteError(e), jobs)
             /\ UNCHANGED store
        \/ /\ Valid(doc)
           /\ ~Existing(doc.link)
           /\ store' = Inserted(store, doc)
           /\ Return(r, i, Saved, jobs)
           /\ UNCHANGED scope
  /\ UNCHANGED <<runPc, articles, queue, active, results, calls, stats, retval>>

\* ------------------------------------------------------- fetchAndStoreNews
\* Mutant: the empty-list guard is missing.
EmptyBatchNever(list) == FALSE

\* `!Array.isArray(articles) || articles.length === 0`
EmptyBatch(list) == Len(list) = 0

\* fetchRSSArticles resolved with a list of at most n candidates;
\* fetchAndStoreNews returns at once on an empty list and otherwise calls
\* processWithConcurrency, whose first next() runs synchronously.
FetchReturnsFrom(r, lists) ==
  /\ UNCHANGED notJobVars
  /\ jobs = <<>>
  /\ runPc[r] = "idle"
  /\ \E list \in lists :
       /\ articles' = [articles EXCEPT ![r] = list]
       /\ IF EmptyBatch(list)
            THEN /\ runPc' = [runPc EXCEPT ![r] = "done"]
                 /\ UNCHANGED <<queue, active, results, pc, ret, calls, scope,
                                jobs>>
            ELSE /\ results' = [results EXCEPT ![r] = <<>>]
                 /\ ret' = [ret EXCEPT ![r] = [i \in 1..Len(list) |-> NoResult]]
                 /\ calls' = [calls EXCEPT ![r] = [i \in 1..Len(list) |-> <<>>]]
                 /\ scope' = [scope EXCEPT ![r] =
                                [i \in 1..Len(list) |-> NoScope]]
                 /\ PoolNext(r, [i \in 1..Len(list) |-> i], 0,
                             [i \in 1..Len(list) |-> "queued"], jobs)
  /\ UNCHANGED <<store, stats, retval>>

\* fetchRSSArticles resolves with a list of at most n candidates.
FetchReturns(r, n) == FetchReturnsFrom(r, CandidateLists(n))

\* The lists of at most n candidates of which at most m have both fields, so
\* that at most m worker calls await anything.
AwaitingLists(n, m) == {l \in CandidateLists(n) : Cardinality(Complete(l)) <= m}

\* The skip counts of the run summary: one key per reason seen.
SkipCounts(res) ==
  [x \in {res[k].skipped : k \in {k \in 1..Len(res) : ~res[k].saved /\ res[k].skipped # ""}} |->
     Cardinality({k \in 1..Len(res) : ~res[k].saved /\ res[k].skipped = x})]

\* Mutant: the reducer has no error branch.
ReduceWithoutErrors(res) ==
  [saved |-> Cardinality({k \in 1..Len(res) : res[k].saved}),
   errors |-> 0,
   skipped |-> SkipCounts(res)]

\* `results.reduce(...)`: saved, else skipped, else error.
Reduce(res) ==
  [saved |-> Cardinality({k \in 1..Len(res) : res[k].saved}),
   errors |-> Cardinality({k \in 1..Len(res) :
                 ~res[k].saved /\ res[k].skipped = "" /\ res[k].error}),
   skipped |-> SkipCounts(res)]

\* Head of the microtask queue: the await of processWithConcurrency
\* continues; the stats are computed and logged, the function returns
\* nothing.
Tally ==
  /\ UNCHANGED notJobVars
  /\ jobs # <<>>
  /\ Head(jobs).kind = "tally"
  /\ LET r == Head(jobs).run
     IN /\ stats' = [stats EXCEPT ![r] = {Reduce(results[r])}]
        /\ runPc' = [runPc EXCEPT ![r] = "done"]
  /\ jobs' = Tail(jobs)
  /\ UNCHANGED <<store, articles, queue, active, results, pc, ret, calls,
                 scope, retval>>

\* ------------------------------------------------------------- summarizer
\* A text is a sequence of tokens: " " is one whitespace character, "w" any
\* other word; the remaining tokens are the words and marks clean() looks for.
XTokens == {" ", "Summary", ":", "w"}

\* The texts of at most n tokens.
RECURSIVE Texts(_)
Texts(n) ==
  IF n = 0 THEN {<<>>}
  ELSE LET shorter == Texts(n - 1)
       IN shorter \cup {Append(x, t) : x \in shorter, t \in XTokens}

\* "Here's the summary: " and "This is summary-", two of the lead-ins.
HeresTheSummary == <<"Here's", " ", "the", " ", "summary", ":", " ">>
ThisIsSummary == <<"this", " ", "is", " ", "summary", "-">>

\* What a completion's message content may be; <<>> also stands for a
\* completion without choices or content (`|| ''`).
RawTexts ==
  Texts(MaxText)
    \cup {HeresTheSummary \o x : x \in Texts(MaxText)}
    \cup {ThisIsSummary \o x : x \in Texts(MaxText)}

\* The patterns carry the i flag.
Lower(t) ==
  CASE t = "Here's" -> "here's"
    [] t = "Summary" -> "summary"
    [] OTHER -> t

\* Token i of s, lower-cased; "" past the end.
At(s, i) == IF i \in 1..Len(s) THEN Lower(s[i]) ELSE ""

\* \s* from position i: the first position that holds no whitespace.
RECURSIVE SkipWs(_, _)
SkipWs(s, i) == IF At(s, i) = " " THEN SkipWs(s, i + 1) ELSE i

\* s from position i on.
From(s, i) == IF i > Len(s) THEN <<>> ELSE SubSeq(s, i, Len(s))

\* A lead-in that is left in place.
NotStripped(s) == s

\* .replace(/^\s*(here'?s|this is)\s+(the\s+)?summary[:\-]\s*/i, '')
StripHeres(s) ==
  LET a == SkipWs(s, 1)
      b == IF At(s, a) \in {"here's", "heres"} THEN a + 1
           ELSE IF At(s, a) = "this" /\ At(s, a + 1) = " " /\ At(s, a + 2) = "is"
                  THEN a + 3
           ELSE 0
      c == SkipWs(s, b)
      d == IF At(s, c) = "the" /\ At(s, c + 1) = " " THEN SkipWs(s, c + 1) ELSE c
  IN IF /\ b # 0
        /\ At(s, b) = " "
        /\ At(s, d) = "summary"
        /\ At(s, d + 1) \in {":", "-"}
       THEN From(s, SkipWs(s, d + 2))
       ELSE s

\* .replace(/^\s*summary[:\-]\s*/i, '')
StripSummary(s) ==
  LET a == SkipWs(s, 1)
  IN IF At(s, a) = "summary" /\ At(s, a + 1) \in {":", "-"}
       THEN From(s, SkipWs(s, a + 2))
       ELSE s

clean(t) == Trim(StripSummary(StripHeres(t)))

\* What the provider's client may throw: an HTTP status (0 = the error has
\* none) and the marker words its lower-cased message contains.  The last one
\* is also the TypeError callOnce throws on a malformed response.
Errors ==
  { [status |-> 429, msg |-> {}],
    [status |-> 0,   msg |-> {"quota"}],
    [status |-> 503, msg |-> {"rate limit"}],
    [status |-> 500, msg |-> {}],
    [status |-> 599, msg |-> {"overload"}],
    [status |-> 0,   msg |-> {"timeout"}],
    [status |-> 600, msg |-> {}],
    [status |-> 400, msg |-> {}],
    [status |-> 0,   msg |-> {}] }

isRateLimit(err) ==
  err.status = 429 \/ err.msg \cap {"rate limit", "quota", "tpm"} # {}

isRetryable(err) ==
  \/ isRateLimit(err)
  \/ (err.status >= 500 /\ err.status < 600)
  \/ err.msg \cap {"timeout", "temporar", "overload"} # {}

\* The catch block with its two tests swapped.
OnErrorRetryableFirst(err) ==
  IF isRetryable(err) THEN "retryable"
  ELSE IF isRateLimit(err) THEN "rate_limit"
  ELSE "fatal"

\* A catch block without its break.
OnErrorNeverBreaks(err) ==
  IF isRateLimit(err) THEN "rate_limit" ELSE "retryable"

\* The catch block: hop at once, sleep and hop, or break.
OnError(err) ==
  IF isRateLimit(err) THEN "rate_limit"
  ELSE IF isRetryable(err) THEN "retryable"
  ELSE "fatal"

\* A try that lets errors without a status through.
CaughtWithStatus(err) == err.status # 0

\* `await callOnce(model, text)` sits inside the try: every error is caught.
Caught(err) == TRUE

\* A budget of three rounds over the models.
BudgetThreeRounds(models) == Len(models) * 3

\* The loop's bound on turns.
Budget(models) == Len(models) * 2

\* summarizeContent resolves with s.
Resolve(s) ==
  /\ sPc' = "returned"
  /\ summary' = {s}

\* idx hops to the next model and the loop goes on with `turns++`: another
\* callOnce is issued, or the budget is spent and '' is returned.
Hop ==
  /\ idx' = (idx + 1) % Len(MODELS)
  /\ turns' = turns + 1
  /\ IF turns + 1 < Budget(MODELS)
       THEN /\ sPc' = "calling"
            /\ called' = Append(called, MODELS[((idx + 1) % Len(MODELS)) + 1])
            /\ UNCHANGED summary
       ELSE /\ Resolve(<<>>)
            /\ UNCHANGED called

\* Mutant: the cursor is kept from one summarize call to the next.
StartIdxKept(prev) == prev

\* `let idx = 0`: where the cursor of a summarize call starts, prev being
\* where the cursor of the call before it stood.
StartIdx(prev) == 0

\* The body of summarizeContent up to its first await: texts under 40
\* characters are turned away, otherwise idx, lastErr and turns are set up
\* and the model at idx is called.
Enter ==
  /\ \E len \in {0, MIN_TEXT_LEN - 1, MIN_TEXT_LEN} :
       /\ text' = len
       /\ IF len = 0 \/ len < MIN_TEXT_LEN
            THEN /\ Resolve(<<>>)
                 /\ called' = <<>>
            ELSE /\ sPc' = "calling"
                 /\ called' = <<MODELS[StartIdx(idx) + 1]>>
                 /\ summary' = {}
  /\ idx' = StartIdx(idx)
  /\ turns' = 0
  /\ lastErr' = {}
  /\ raw' = <<>>
  /\ out' = <<>>
  /\ last' = ""
  /\ seen' = {}
  /\ slept' = 0
  /\ UNCHANGED MODELS

\* summarizeContent(text) is called for the first time.
Summarize ==
  /\ UNCHANGED notSummarizerVars
  /\ sPc = "idle"
  /\ Enter
  /\ UNCHANGED earlier

\* summarizeContent(text) is called again, after an earlier call returned.
SummarizeAgain ==
  /\ UNCHANGED notSummarizerVars
  /\ sPc = "returned"
  /\ Enter
  /\ earlier' = TRUE

\* The provider answers the call with a completion: callOnce cleans it, and
\* summarizeContent returns it unless it is empty.
CallOnceReturns ==
  /\ UNCHANGED notSummarizerVars
  /\ sPc = "calling"
  /\ \E content \in RawTexts :
       /\ raw' = content
       /\ out' = clean(content)
       /\ IF clean(content) # <<>>
            THEN /\ Resolve(clean(content))
                 /\ last' = "text"
                 /\ seen' = seen \cup {"text"}
                 /\ UNCHANGED <<idx, turns, called>>
            ELSE /\ Hop
                 /\ last' = "empty"
                 /\ seen' = seen \cup {"empty"}
  /\ slept' = 0
  /\ UNCHANGED <<MODELS, text, lastErr, earlier>>

\* The call throws: the client's error, or callOnce's own on a malformed
\* response.
CallOnceThrows ==
  /\ UNCHANGED notSummarizerVars
  /\ sPc = "calling"
  /\ \E err \in Errors :
       IF Caught(err)
         THEN /\ lastErr' = {err}
              /\ last' = OnError(err)
              /\ seen' = seen \cup {OnError(err)}
              /\ CASE OnError(err) = "rate_limit" -> Hop
                   [] OnError(err) = "retryable" ->
                        /\ sPc' = "sleeping"
                        /\ UNCHANGED <<idx, turns, called, summary>>
                   [] OTHER ->
                        /\ Resolve(<<>>)
                        /\ UNCHANGED <<idx, turns, called>>
         ELSE /\ sPc' = "threw"
              /\ last' = "uncaught"
              /\ UNCHANGED <<lastErr, seen, idx, turns, called, summary>>
  /\ slept' = 0
  /\ UNCHANGED <<MODELS, text, raw, out, earlier>>

\* sleep(400) is over.
SleepEnds ==
  /\ UNCHANGED notSummarizerVars
  /\ sPc = "sleeping"
  /\ slept' = slept + BACKOFF_MS
  /\ Hop
  /\ UNCHANGED <<MODELS, text, lastErr, raw, out, last, seen, earlier>>

\* ------------------------------------------------------------ feed sampler
\* What parser.parseURL yields for a feed: a failure, or `size` items.  Item
\* p of a feed (p = 1 is listed first) is published at time size - p + 1
\* when the feed lists its newest item first and at time p when it lists its
\* oldest first; every fourth item carries no date, every third no link.
\* With "shared" links item p has link p in every feed, with "same" links
\* every linked item of the feed has link 1.  A feed's source label follows
\* from its URL.
FeedSizes == {INITIAL_LIMIT, INITIAL_LIMIT + 1}

Feeds ==
  [ok : {TRUE}, size : FeedSizes, order : {"newest", "oldest"},
   links : {"shared", "same"}]
    \cup {[ok |-> FALSE, size |-> 0, order |-> "newest", links |-> "shared"]}

\* Item p of feed f as rss-parser hands it over; `item` names the parsed
\* item itself.
Item(f, p) ==
  LET d == rssFeeds[f]
  IN [ item |-> <<f, p>>,
       title |-> (p \div 3) % 2,
       link |-> IF p % 3 = 0 THEN 0
                ELSE IF d.links = "shared" THEN p ELSE 1,
       isoDate |-> IF p % 4 = 0 THEN {}
                   ELSE IF d.order = "newest" THEN {d.size - p + 1} ELSE {p} ]

\* feed.items
Items(f) == [p \in 1..rssFeeds[f].size |-> Item(f, p)]

\* SOURCE_MAP[url] || siteFromURL(url)
Source(f) == IF rssFeeds[f].links = "shared" THEN "A" ELSE "B"

normalizeItem(item, f) ==
  [ title |-> item.title,
    link |-> item.link,
    pubDate |-> item.isoDate,
    source |-> Source(f),
    item |-> item.item ]

\* items.slice(0, limit)
Slice(arr, limit) ==
  IF Len(arr) <= limit THEN arr ELSE SubSeq(arr, 1, limit)

\* arr rotated left by k.
Rotated(arr, k) ==
  [p \in 1..Len(arr) |-> arr[((p - 1 + k) % Len(arr)) + 1]]

Reversed(arr) == [p \in 1..Len(arr) |-> arr[Len(arr) - p + 1]]

\* The orders arr.sort(() => 0.5 - Math.random()) may leave arr in: a sort
\* with a random comparator yields some permutation of arr.  The family
\* checked is the rotations by at most MaxRotate and the reversal.
Shuffles(arr) ==
  IF Len(arr) = 0 THEN {arr}
  ELSE {Rotated(arr, k) : k \in 0..MaxRotate} \cup {Reversed(arr)}

\* A pickRandomItems that returns one item more.
pickRandomItemsOneMore(arr, count) ==
  IF Len(arr) = 0 THEN {<<>>}
  ELSE {Slice(shuffled, count + 1) : shuffled \in Shuffles(arr)}

\* pickRandomItems(arr, count): the samples it may return.
pickRandomItems(arr, count) ==
  IF Len(arr) = 0 THEN {<<>>}
  ELSE {Slice(shuffled, count) : shuffled \in Shuffles(arr)}

\* Math.floor(Math.random() * 2) + (RECUR_PICK - 1), coin the floor.
HowMany(coin) == coin + (RECUR_PICK - 1)

\* The (limit, count) pairs fetchOne may use in a mode.
Picks(m) ==
  IF m = "initial" THEN {<<INITIAL_LIMIT, INITIAL_PICK>>}
  ELSE {<<RECUR_LIMIT, HowMany(coin)>> : coin \in {0, 1}}

\* A key of the link alone.
keyByLink(a) == <<"link", a.link>>

\* a.link || `${a.title}::${a.source}`
key(a) ==
  IF a.link # 0 THEN <<"link", a.link>> ELSE <<"title", a.title, a.source>>

\* The dedup loop: the first candidate of each key, in order.
RECURSIVE Dedupe(_, _, _)
Dedupe(all, seenKeys, deduped) ==
  IF all = <<>> THEN deduped
  ELSE IF key(Head(all)) \in seenKeys
         THEN Dedupe(Tail(all), seenKeys, deduped)
         ELSE Dedupe(Tail(all), seenKeys \cup {key(Head(all))},
                     Append(deduped, Head(all)))

\* A comparator that puts the oldest first.
OldestFirst(a, b) ==
  /\ b.pubDate # {}
  /\ a.pubDate = {} \/ \E ta \in a.pubDate, tb \in b.pubDate : ta < tb

\* The comparator db - da is negative: a sorts before b.  A missing date
\* counts as -Infinity; two missing dates give NaN, which sort treats as 0.
NewestFirst(a, b) ==
  /\ a.pubDate # {}
  /\ b.pubDate = {} \/ \E ta \in a.pubDate, tb \in b.pubDate : ta > tb

\* x inserted into the sorted list l behind every element it does not
\* precede: Array.prototype.sort is stable.
RECURSIVE Insert(_, _)
Insert(l, x) ==
  IF l = <<>> THEN <<x>>
  ELSE IF NewestFirst(x, Head(l)) THEN <<x>> \o l
  ELSE <<Head(l)>> \o Insert(Tail(l), x)

\* deduped.sort(...)
RECURSIVE Sort(_, _)
Sort(l, sorted) ==
  IF l = <<>> THEN sorted ELSE Sort(Tail(l), Insert(sorted, Head(l)))

\* A catch that lets the failure of a feed through.
FeedErrorEscapes == FALSE

\* The try/catch around `await fetchOne(url, mode)`.
FeedErrorCaught == TRUE

\* The loop goes on after feed f with allArticles = all: the next feed is
\* fetched or, after the last one, the list is deduplicated, sorted and
\* returned.
Continue(f, all) ==
  /\ allArticles' = all
  /\ feedNo' = f + 1
  /\ IF f + 1 <= Len(rssFeeds)
       THEN /\ fPc' = "fetching"
            /\ UNCHANGED sampled
       ELSE /\ fPc' = "returned"
            /\ sampled' = {Sort(Dedupe(all, {}, <<>>), <<>>)}

\* fetchRSSArticles(mode) is called.
FetchRSSArticles ==
  /\ UNCHANGED notSamplerVars
  /\ fPc = "idle"
  /\ \E m \in {"initial", "recurring"} : mode' = m
  /\ samples' = [f \in 1..Len(rssFeeds) |-> <<>>]
  /\ Continue(0, <<>>)
  /\ UNCHANGED rssFeeds

\* parser.parseURL resolves for the current feed: fetchOne picks its sample
\* and normalizes it, and the sample is pushed onto allArticles.
FetchOneReturns ==
  /\ UNCHANGED notSamplerVars
  /\ fPc = "fetching"
  /\ rssFeeds[feedNo].ok
  /\ \E pick \in Picks(mode) :
       LET latest == Slice(Items(feedNo), pick[1])
       IN \E picked \in pickRandomItems(latest, pick[2]) :
            LET normalized == [k \in 1..Len(picked) |->
                                normalizeItem(picked[k], feedNo)]
            IN /\ samples' = [samples EXCEPT ![feedNo] = normalized]
               /\ Continue(feedNo, allArticles \o normalized)
  /\ UNCHANGED <<rssFeeds, mode>>

\* The fetch or the parse of the current feed fails: the error is logged.
FetchOneThrows ==
  /\ UNCHANGED notSamplerVars
  /\ fPc = "fetching"
  /\ ~rssFeeds[feedNo].ok
  /\ IF FeedErrorCaught
       THEN Continue(feedNo, allArticles)
       ELSE /\ fPc' = "threw"
            /\ UNCHANGED <<allArticles, feedNo, sampled>>
  /\ UNCHANGED <<rssFeeds, mode, samples>>

\* --------------------------------------------------- extractContentFromLink
\* The URL extractContentFromLink is given.
PageUrl == <<"https://site", "/a">>

\* What an attribute that names an image can hold: nothing (the element or
\* the attribute is missing, or it is empty), a relative reference, an
\* absolute URL, or a string `new URL` cannot parse.
OgSrcs == {NoUrl, <<"", "/og.png">>, <<"https://cdn", "/og.png">>, <<"http://[", "">>}
TwitterSrcs == {NoUrl, <<"https://cdn", "/tw.png">>}
ImgSrcs == {NoUrl, <<"", "/img.png">>}

\* Lengths of the trimmed text under a known selector that matches, and of
\* the trimmed text of a <p> element.
SelectorLens == {0, FALLBACK_BELOW - 1, SUBSTANTIAL, SUBSTANTIAL + 1}
ParagraphLens == {MIN_PARAGRAPH, MIN_PARAGRAPH + 1, SUBSTANTIAL - MIN_PARAGRAPH}
\* Characters of the chosen text that the boilerplate patterns match
\* ("advertisement" has 13).
BoilerplateLens == {0, 13}

\* The pages: the texts of the known selectors that match, in the priority
\* order of knownSelectors; the texts of the <p> elements; the boilerplate
\* in the text; the three image attributes.
Pages ==
  [matches : UNION {[1..n -> SelectorLens] : n \in 0..MaxMatches},
   paragraphs : UNION {[1..n -> ParagraphLens] : n \in 0..MaxParagraphs},
   boilerplate : BoilerplateLens,
   og : OgSrcs, twitter : TwitterSrcs, img : ImgSrcs]

\* A text by where it was taken from and its length; the empty string is
\* the same whatever it was taken from.
NoText == [src |-> <<>>, len |-> 0]
Text(src, len) == IF len = 0 THEN NoText ELSE [src |-> src, len |-> len]

\* `new URL(src, pageUrl).href`, or src when that throws: an empty reference
\* resolves to the base URL itself.
resolveImage(src, pageUrl) ==
  IF src = NoUrl THEN pageUrl
  ELSE IF src[1] = "http://[" THEN src
  ELSE IF src[1] = "" THEN <<pageUrl[1], src[2]>>
  ELSE src

\* Step 1, the loop over knownSelectors from the k-th matching one on, with
\* articleText as it stands: every matching selector overwrites it, and the
\* loop breaks on the first text longer than 200.
RECURSIVE Step1(_, _, _)
Step1(m, k, articleText) ==
  IF k > Len(m) THEN articleText
  ELSE LET t == Text(<<"selector", k>>, m[k])
       IN IF t.len > SUBSTANTIAL THEN t ELSE Step1(m, k + 1, t)

RECURSIVE Sum(_)
Sum(q) == IF q = <<>> THEN 0 ELSE Head(q) + Sum(Tail(q))

\* `$('p')...filter(p => p.length > 50).join(' ')`
Paragraphs(ps) ==
  LET kept == SelectSeq(ps, LAMBDA l : l > MIN_PARAGRAPH)
  IN Text(<<"p">>, IF kept = <<>> THEN 0 ELSE Sum(kept) + Len(kept) - 1)

\* Step 2: `if (!articleText || articleText.length < 200)`, the paragraphs.
Step2(pg, articleText) ==
  IF articleText = NoText \/ articleText.len < FALLBACK_BELOW
    THEN Paragraphs(pg.paragraphs)
    ELSE articleText

\* Step 3: the boilerplate is cut out of the text.
Step3(pg, articleText) ==
  Text(articleText.src,
       IF articleText.len > pg.boilerplate THEN articleText.len - pg.boilerplate ELSE 0)

Or(a, b) == IF a # NoUrl THEN a ELSE b

\* Step 4: og:image || twitter:image || first img || '', then resolveImage.
Step4(pg) == resolveImage(Or(pg.og, Or(pg.twitter, Or(pg.img, NoUrl))), PageUrl)

\* What extractContentFromLink returns for a page that was fetched and parsed.
Extract(pg) ==
  [content |-> Step3(pg, Step2(pg, Step1(pg.matches, 1, NoText))),
   image |-> Step4(pg)]

\* `return { content: '', image: '' }`
EmptyResult == [content |-> NoText, image |-> NoUrl]

\* Mutant: no catch around the body of extractContentFromLink.
ScrapeErrorEscapes == FALSE

\* The try/catch around the whole body of extractContentFromLink.
ScrapeErrorCaught == TRUE

\* An exception inside the try block.
Thrown ==
  IF ScrapeErrorCaught
    THEN /\ ePc' = "returned"
         /\ extracted' = {EmptyResult}
    ELSE /\ ePc' = "threw"
         /\ UNCHANGED extracted

\* extractContentFromLink(url) is called and awaits axios.get.
ExtractContentFromLink ==
  /\ UNCHANGED notScraperVars
  /\ ePc = "idle"
  /\ ePc' = "requesting"
  /\ UNCHANGED <<page, extracted>>

\* axios.get rejects: a timeout, a network error, more than 5 redirects, or
\* a status outside 200..399.
AxiosRejects ==
  /\ UNCHANGED notScraperVars
  /\ ePc = "requesting"
  /\ Thrown
  /\ UNCHANGED page

\* axios.get resolves, and cheerio.load or a later statement throws.
ParseThrows ==
  /\ UNCHANGED notScraperVars
  /\ ePc = "requesting"
  /\ Thrown
  /\ UNCHANGED page

\* axios.get resolves with the page, and steps 1 to 4 run.
AxiosResolves ==
  /\ UNCHANGED notScraperVars
  /\ ePc = "requesting"
  /\ ePc' = "returned"
  /\ extracted' = {Extract(page)}
  /\ UNCHANGED page

\* ----------------------------------------------------------------- GET /news
\* A document is known by its position in docs, the order of construction,
\* which is the order of the _id values; all documents carry the same
\* pubDate.
Landed == {d \in 1..Len(docs) : docs[d].landed}

\* `{ createdAt: { $lte: snapshot } }` over the collection.
BaseQuery(snap) == {d \in Landed : docs[d].createdAt <= snap}

\* `{ createdAt: -1, pubDate: -1, _id: -1 }`: d sorts before e.
SortsBefore(d, e) ==
  \/ docs[d].createdAt > docs[e].createdAt
  \/ docs[d].createdAt = docs[e].createdAt /\ d > e

\* Position of d in the sorted result of the query over `base`.
Rank(d, base) == 1 + Cardinality({e \in base : SortsBefore(e, d)})

\* `.sort(sortBy).skip(skip).limit(limit)`
Find(base, skip, lim) ==
  LET n == IF Cardinality(base) <= skip THEN 0
           ELSE IF Cardinality(base) - skip < lim THEN Cardinality(base) - skip
           ELSE lim
  IN [k \in 1..n |-> CHOOSE d \in base : Rank(d, base) = skip + k]

Min(a, b) == IF a < b THEN a ELSE b
Max(a, b) == IF a > b THEN a ELSE b
Ceil(a, b) == (a + b - 1) \div b

\* The handler of GET /news, asked for page pg with limit lim and snapshot
\* snap ({} when the request has none, in which case it is taken from the
\* clock); both queries are answered from the same state of the collection.
GetNews(pg, lim, snap) ==
  LET limit_ == Min(Max(lim, 1), MAX_LIMIT)
      page_ == Max(pg, 1)
      skip == (page_ - 1) * limit_
      snapshot_ == IF snap = {} THEN now ELSE CHOOSE t \in snap : TRUE
      base == BaseQuery(snapshot_)
  IN [page |-> page_,
      limit |-> limit_,
      totalPages |-> Max(1, Ceil(Cardinality(base), limit_)),
      totalArticles |-> Cardinality(base),
      snapshot |-> snapshot_,
      articles |-> Find(base, skip, limit_)]

\* A millisecond passes.
Tick ==
  /\ UNCHANGED notNewsVars
  /\ now < MaxClock
  /\ now' = now + 1
  /\ UNCHANGED <<docs, nPc, pageLimit, snapshot, totalPages, got>>

\* Article.create constructs a document: `createdAt: { default: Date.now }`
\* is evaluated now, in the application; the insert is sent to the store.
Construct ==
  /\ UNCHANGED notNewsVars
  /\ nPc # "done"
  /\ Len(docs) < MaxDocs
  /\ docs' = Append(docs, [createdAt |-> now, landed |-> FALSE])
  /\ UNCHANGED <<now, nPc, pageLimit, snapshot, totalPages, got>>

\* The insert of document d reaches the collection.
Land(d) ==
  /\ UNCHANGED notNewsVars
  /\ nPc # "done"
  /\ d \in 1..Len(docs)
  /\ ~docs[d].landed
  /\ docs' = [docs EXCEPT ![d].landed = TRUE]
  /\ UNCHANGED <<now, nPc, pageLimit, snapshot, totalPages, got>>

\* fetchAllArticles: `first = await fetchPage(1, limit)`, a request without
\* a snapshot, and `total = Math.min(first.totalPages || 1, MAX_PAGES_CAP)`.
FetchFirstPage(lim) ==
  /\ UNCHANGED notNewsVars
  /\ nPc = "idle"
  /\ LET first == GetNews(1, lim, {})
         total == Min(first.totalPages, MAX_PAGES_CAP)
     IN /\ pageLimit' = lim
        /\ snapshot' = {first.snapshot}
        /\ totalPages' = total
        /\ got' = (1 :> first.articles)
        /\ nPc' = IF total > 1 THEN "paging" ELSE "done"
  /\ UNCHANGED <<now, docs>>

\* One of the requests `fetchPage(p, limit, first.snapshot)` for the pages
\* 2..total, which are sent together, is answered.
FetchPage(p) ==
  /\ UNCHANGED notNewsVars
  /\ nPc = "paging"
  /\ p \in 2..totalPages
  /\ p \notin DOMAIN got
  /\ got' = got @@ (p :> GetNews(p, pageLimit, snapshot).articles)
  /\ nPc' = IF DOMAIN got' = 1..totalPages THEN "done" ELSE "paging"
  /\ UNCHANGED <<now, docs, pageLimit, snapshot, totalPages>>

\* ---------------------------------------------------------------- scheduler
\* The values of NEWS_CRON: unset, a valid expression, an invalid one.
CronValues == {"unset", "0 * * * *", "hourly"}

\* The values of INITIAL_THRESHOLD: unset, a number, not a number.
ThresholdValues == {"unset", "1", "abc"}

\* The environments the scheduler is started in.
Envs ==
  [MONGO_URI : BOOLEAN, NEWS_CRON : CronValues,
   INITIAL_THRESHOLD : ThresholdValues]

\* CRON_EXPR: NEWS_CRON, or every 30 minutes.
CRON_EXPR(e) ==
  IF e.NEWS_CRON = "unset" THEN "*/30 * * * *" ELSE e.NEWS_CRON

\* cron.validate(expr).
Validate(expr) == expr \in {"*/30 * * * *", "0 * * * *"}

\* Number(v): <<n>> for the number n, <<>> for NaN.
Number(v) ==
  CASE v = "1" -> <<1>>
    [] v = "abc" -> <<>>

\* INITIAL_THRESHOLD: Number(process.env.INITIAL_THRESHOLD || 10).
INITIAL_THRESHOLD(e) ==
  IF e.INITIAL_THRESHOLD = "unset"
  THEN <<INITIAL_THRESHOLD_DEFAULT>>
  ELSE Number(e.INITIAL_THRESHOLD)

\* Mutant: `count <= INITIAL_THRESHOLD`, false when t is NaN.
AtMost(n, t) == t # <<>> /\ n <= t[1]

\* n < t, false when t is NaN.
Below(n, t) == t # <<>> /\ n < t[1]

\* The answers of estimatedDocumentCount.
Counts == 0..MaxCount

\* process.exit(code).
Exit(code) ==
  /\ bPc' = IF code = 0 THEN "exit0" ELSE "exit1"
  /\ closing' = FALSE

\* boot after the initial fill: validate CRON_EXPR and register the task.
Schedule ==
  IF ~Validate(CRON_EXPR(env))
  THEN Exit(1) /\ UNCHANGED scheduled
  ELSE /\ scheduled' = TRUE
       /\ bPc' = "up"
       /\ UNCHANGED closing

\* boot with count decided: run the initial fill, or skip it.
Decide(n) ==
  /\ bootCount' = n
  /\ IF Below(n, INITIAL_THRESHOLD(env))
     THEN /\ initialRun' = "running"
          /\ bPc' = "initial"
          /\ UNCHANGED <<scheduled, closing>>
     ELSE Schedule /\ UNCHANGED initialRun

\* boot up to its first await: a missing MONGO_URI ends the process.
Boot ==
  /\ UNCHANGED notSchedulerVars
  /\ bPc = "idle"
  /\ IF ~env.MONGO_URI
     THEN Exit(1)
     ELSE bPc' = "connect" /\ UNCHANGED closing
  /\ UNCHANGED <<env, bootCount, initialRun, scheduled, recurring>>

\* mongoose.connect resolves: boot asks for the count.
ConnectResolves ==
  /\ UNCHANGED notSchedulerVars
  /\ bPc = "connect"
  /\ bPc' = "count"
  /\ UNCHANGED <<env, bootCount, initialRun, scheduled, recurring, closing>>

\* mongoose.connect rejects: the outer catch ends the process.
ConnectRejects ==
  /\ UNCHANGED notSchedulerVars
  /\ bPc = "connect"
  /\ Exit(1)
  /\ UNCHANGED <<env, bootCount, initialRun, scheduled, recurring>>

\* estimatedDocumentCount resolves with n.
CountResolves(n) ==
  /\ UNCHANGED notSchedulerVars
  /\ bPc = "count"
  /\ Decide(n)
  /\ UNCHANGED <<env, recurring>>

\* estimatedDocumentCount rejects: count keeps its 0.
CountRejects ==
  /\ UNCHANGED notSchedulerVars
  /\ bPc = "count"
  /\ Decide(bootCount)
  /\ UNCHANGED <<env, recurring>>

\* fetchAndStoreNews('initial') resolves.
InitialResolves ==
  /\ UNCHANGED notSchedulerVars
  /\ bPc = "initial"
  /\ initialRun' = "resolved"
  /\ Schedule
  /\ UNCHANGED <<env, bootCount, recurring>>

\* fetchAndStoreNews('initial') rejects: the inner catch logs it.
InitialRejects ==
  /\ UNCHANGED notSchedulerVars
  /\ bPc = "initial"
  /\ initialRun' = "rejected"
  /\ Schedule
  /\ UNCHANGED <<env, bootCount, recurring>>

\* The registered task fires: it calls fetchAndStoreNews('recurring').
CronFires ==
  /\ UNCHANGED notSchedulerVars
  /\ bPc = "up"
  /\ scheduled
  /\ Len(recurring) < MaxFires
  /\ recurring' = Append(recurring, "running")
  /\ UNCHANGED <<env, bPc, bootCount, initialRun, scheduled, closing>>

\* The k-th recurring call settles; a rejection is caught and logged.
RecurringSettles(k, outcome) ==
  /\ UNCHANGED notSchedulerVars
  /\ bPc = "up"
  /\ k \in DOMAIN recurring
  /\ recurring[k] = "running"
  /\ recurring' = [recurring EXCEPT ![k] = outcome]
  /\ UNCHANGED <<env, bPc, bootCount, initialRun, scheduled, closing>>

\* SIGINT or SIGTERM: shutdown starts to close the connection.
Shutdown ==
  /\ UNCHANGED notSchedulerVars
  /\ bPc \in {"connect", "count", "initial", "up"}
  /\ ~closing
  /\ closing' = TRUE
  /\ UNCHANGED <<env, bPc, bootCount, initialRun, scheduled, recurring>>

\* mongoose.connection.close() settles: finally ends the process.
CloseSettles ==
  /\ UNCHANGED notSchedulerVars
  /\ bPc \in {"connect", "count", "initial", "up"}
  /\ closing
  /\ Exit(0)
  /\ UNCHANGED <<env, bootCount, initialRun, scheduled, recurring>>

\* ------------------------------------------------------ frontend navigation
\* The ids of the articles: article k is the k-th one created.
Ids == 1..MaxArticles

Scopes == {"unread", "all"}

\* indexArticles of the k articles created so far: order is newest first,
\* and map holds an article for every id of order.
indexArticles(k) == [order |-> [j \in 1..k |-> k + 1 - j], map |-> 1..k]

\* The caches ensureCache may resolve with.
Caches == {indexArticles(k) : k \in 0..MaxArticles}

\* buildSnapshot's ids for a cache, the scope and the read map.
SnapshotOf(cache, sc, rm) ==
  IF sc = "all"
  THEN cache.order
  ELSE SelectSeq(cache.order, LAMBDA id : id \notin rm)

\* showAtIndex(i) over the snapshot ids and the cache.
showAtIndex(ids, cache, i) ==
  IF ids = <<>>
  THEN /\ atEnd' = TRUE
       /\ card' = <<"empty">>
       /\ UNCHANGED <<navIdx, readMap>>
  ELSE LET j == Max(0, Min(i, Len(ids) - 1))
           id == ids[j + 1]
       IN  /\ atEnd' = FALSE
           /\ navIdx' = j
           /\ IF id \notin cache.map
              THEN UNCHANGED <<card, readMap>>
              ELSE /\ card' = <<"article", id>>
                   /\ readMap' = readMap \cup {id}

\* showEndCard().
showEndCard ==
  /\ card' = <<"empty">>
  /\ atEnd' = TRUE
  /\ UNCHANGED <<navIdx, readMap>>

\* Mutant: Next on the last unread article wraps around to the first.
NextTargetWraps(sc, n, i, end) ==
  IF n = 0 THEN <<>>
  ELSE IF sc = "unread"
       THEN IF end THEN <<>>
            ELSE IF i < n - 1 THEN <<"show", i + 1>> ELSE <<"show", 0>>
       ELSE IF i < n - 1 THEN <<"show", i + 1>> ELSE <<>>

\* What handleNext does in scope sc with n snapshot ids at index i:
\* <<"show", j>> for showAtIndex(j), <<"end">> for showEndCard(), <<>> for
\* nothing.
NextTarget(sc, n, i, end) ==
  IF n = 0 THEN <<>>
  ELSE IF sc = "unread"
       THEN IF end THEN <<>>
            ELSE IF i < n - 1 THEN <<"show", i + 1>> ELSE <<"end">>
       ELSE IF i < n - 1 THEN <<"show", i + 1>> ELSE <<>>

\* What handlePrev does: <<"back">> for leaving the end card.
PrevTarget(sc, n, i, end) ==
  IF n = 0 THEN <<>>
  ELSE IF sc = "unread"
       THEN IF end THEN <<"back">>
            ELSE IF i > 0 THEN <<"show", i - 1>> ELSE <<>>
       ELSE IF i > 0 THEN <<"show", i - 1>> ELSE <<>>

\* DOMContentLoaded: the page shows the loading card and builds a snapshot.
Load ==
  /\ UNCHANGED notFrontendVars
  /\ card = <<"none">>
  /\ card' = <<"loading">>
  /\ pending' = [pending EXCEPT !.boot = 1]
  /\ UNCHANGED <<navScope, snapshotIds, navIdx, atEnd, cacheRef, readMap>>

\* setScope(nextScope) up to its await; ensureCache shows the loading card
\* at once when the stored cache is not fresh.
SetScope(nextScope, fresh) ==
  /\ UNCHANGED notFrontendVars
  /\ card # <<"none">>
  /\ pending.setScope < MaxPending
  /\ navScope' = nextScope
  /\ atEnd' = FALSE
  /\ card' = IF fresh THEN card ELSE <<"loading">>
  /\ pending' = [pending EXCEPT !.setScope = @ + 1]
  /\ UNCHANGED <<snapshotIds, navIdx, cacheRef, readMap>>

\* ensureCache finds a newer article on the server and shows the loading
\* card before it fetches all articles.
Refetch ==
  /\ UNCHANGED notFrontendVars
  /\ pending # NoBuild
  /\ card' = <<"loading">>
  /\ UNCHANGED <<navScope, snapshotIds, navIdx, atEnd, cacheRef, readMap,
                 pending>>

\* ensureCache resolves for a caller: buildSnapshot takes the ids of the
\* scope, and the caller shows the first of them.
BuildResolves(caller, cache) ==
  /\ UNCHANGED notFrontendVars
  /\ pending[caller] > 0
  /\ pending' = [pending EXCEPT ![caller] = @ - 1]
  /\ cacheRef' = cache
  /\ snapshotIds' = SnapshotOf(cache, navScope, readMap)
  /\ showAtIndex(snapshotIds', cache, 0)
  /\ UNCHANGED navScope

\* ensureCache rejects for a caller: the boot handler shows the error card,
\* setScope leaves the rejection unhandled.
BuildRejects(caller) ==
  /\ UNCHANGED notFrontendVars
  /\ pending[caller] > 0
  /\ pending' = [pending EXCEPT ![caller] = @ - 1]
  /\ card' = IF caller = "boot" THEN <<"error">> ELSE card
  /\ UNCHANGED <<navScope, snapshotIds, navIdx, atEnd, cacheRef, readMap>>

\* handleNext().
HandleNext ==
  /\ UNCHANGED notFrontendVars
  /\ card # <<"none">>
  /\ LET t == NextTarget(navScope, Len(snapshotIds), navIdx, atEnd)
     IN  CASE t = <<>> -> UNCHANGED <<navIdx, atEnd, card, readMap>>
           [] t = <<"end">> -> showEndCard
           [] OTHER -> showAtIndex(snapshotIds, cacheRef, t[2])
  /\ UNCHANGED <<navScope, snapshotIds, cacheRef, pending>>

\* handlePrev().
HandlePrev ==
  /\ UNCHANGED notFrontendVars
  /\ card # <<"none">>
  /\ LET t == PrevTarget(navScope, Len(snapshotIds), navIdx, atEnd)
     IN  CASE t = <<>> -> UNCHANGED <<navIdx, atEnd, card, readMap>>
           [] t = <<"back">> ->
                showAtIndex(snapshotIds, cacheRef, Len(snapshotIds) - 1)
           [] OTHER -> showAtIndex(snapshotIds, cacheRef, t[2])
  /\ UNCHANGED <<navScope, snapshotIds, cacheRef, pending>>

\* The read marker of id gets older than READ_TTL: pruneReadMap drops it.
Expire(id) ==
  /\ UNCHANGED notFrontendVars
  /\ card # <<"none">>
  /\ id \in readMap
  /\ readMap' = readMap \ {id}
  /\ UNCHANGED <<navScope, snapshotIds, navIdx, atEnd, card, cacheRef,
                 pending>>

\* ----------------------------------------------------------- specifications
Completion(r) ==
  \E i \in DOMAIN pc[r] :
    \/ FindOneReturns(r, i)
    \/ ExtractReturns(r, i)
    \/ SummarizeReturns(r, i)
    \/ CreateReturns(r, i)

\* One run of the job.
Next ==
  \/ FetchReturns(1, MaxItems)
  \/ WorkerStarts
  \/ Settle
  \/ Tally
  \/ Completion(1)

Spec == Init /\ [][Next]_vars

\* The event loop runs every queued promise reaction, and every awaited
\* call of a run settles (the scrape has a 10 s timeout; the store driver
\* and the summarizer's client resolve or reject).
Fairness ==
  /\ WF_vars(WorkerStarts)
  /\ WF_vars(Settle)
  /\ WF_vars(Tally)
  /\ WF_vars(Completion(1))

\* One run of the job whose awaited calls all settle.
SpecFair == Spec /\ Fairness

\* One run of the job in which worker calls may reject, over lists longer
\* than the cap by two.
NextPool ==
  \/ FetchReturns(1, MaxPoolItems)
  \/ WorkerStarts
  \/ Settle
  \/ Tally
  \/ Completion(1)
  \/ \E i \in DOMAIN pc[1] : WorkerRejects(1, i)

SpecPool == Init /\ [][NextPool]_vars

\* One run of the job in which worker calls may reject and at most
\* MaxAwaiting of them await anything.
NextDrain ==
  \/ FetchReturnsFrom(1, AwaitingLists(MaxPoolItems, MaxAwaiting))
  \/ WorkerStarts
  \/ Settle
  \/ Tally
  \/ Completion(1)
  \/ \E i \in DOMAIN pc[1] : WorkerRejects(1, i)

\* The event loop runs every queued promise reaction, and every worker call
\* finishes, by returning or by throwing.
SpecDrain ==
  /\ Init /\ [][NextDrain]_vars
  /\ WF_vars(WorkerStarts)
  /\ WF_vars(Settle)
  /\ WF_vars(Tally)
  /\ WF_vars(Completion(1) \/ \E i \in DOMAIN pc[1] : WorkerRejects(1, i))

\* Two overlapping runs of the job against the same store.
NextRace ==
  \/ \E r \in Runs : FetchReturns(r, MaxRaceItems)
  \/ WorkerStarts
  \/ Settle
  \/ Tally
  \/ \E r \in Runs : Completion(r)

SpecRace == Init /\ [][NextRace]_vars

\* The job has not started.
JobIdle ==
  /\ store = {}
  /\ runPc = [r \in Runs |-> "idle"]
  /\ articles = [r \in Runs |-> <<>>]
  /\ queue = [r \in Runs |-> <<>>]
  /\ active = [r \in Runs |-> 0]
  /\ results = [r \in Runs |-> <<>>]
  /\ pc = [r \in Runs |-> <<>>]
  /\ ret = [r \in Runs |-> <<>>]
  /\ calls = [r \in Runs |-> <<>>]
  /\ scope = [r \in Runs |-> <<>>]
  /\ stats = [r \in Runs |-> {}]
  /\ retval = [r \in Runs |-> {}]
  /\ jobs = <<>>

\* The feed list is read from RSS_URL_TOP_STORIES and may be empty.
InitSampler ==
  /\ JobIdle
  /\ MODELS = <<1>>
  /\ SummarizerIdle
  /\ rssFeeds \in UNION {[1..n -> Feeds] : n \in 0..MaxFeeds}
  /\ SamplerIdle
  /\ page = NoPage
  /\ ScraperIdle
  /\ docs = <<>>
  /\ NewsIdle
  /\ env = DefaultEnv
  /\ SchedulerIdle
  /\ FrontendIdle

NextSampler ==
  \/ FetchRSSArticles
  \/ FetchOneReturns
  \/ FetchOneThrows

\* One call of fetchRSSArticles.
SpecSampler == InitSampler /\ [][NextSampler]_vars

\* The model list is read from MODEL_LIST; without one it holds the default
\* model, so it is never empty.
InitSummarizer ==
  /\ JobIdle
  /\ MODELS \in {[k \in 1..n |-> k] : n \in 1..MaxModels}
  /\ SummarizerIdle
  /\ rssFeeds = <<>>
  /\ SamplerIdle
  /\ page = NoPage
  /\ ScraperIdle
  /\ docs = <<>>
  /\ NewsIdle
  /\ env = DefaultEnv
  /\ SchedulerIdle
  /\ FrontendIdle

NextSummarizer ==
  \/ Summarize
  \/ CallOnceReturns
  \/ CallOnceThrows
  \/ SleepEnds

\* One call of summarizeContent.
SpecSummarizer == InitSummarizer /\ [][NextSummarizer]_vars

\* Calls of summarizeContent, one after the other.
NextSummarizerCalls ==
  \/ NextSummarizer
  \/ SummarizeAgain

SpecSummarizerCalls == InitSummarizer /\ [][NextSummarizerCalls]_vars

\* The provider's client settles every call (it resolves, rejects or times
\* out) and the timer of sleep() fires.
SpecSummarizerFair ==
  /\ SpecSummarizer
  /\ WF_vars(CallOnceReturns \/ CallOnceThrows)
  /\ WF_vars(SleepEnds)

\* The page is whatever the site serves.
InitScraper ==
  /\ JobIdle
  /\ MODELS = <<1>>
  /\ SummarizerIdle
  /\ rssFeeds = <<>>
  /\ SamplerIdle
  /\ page \in Pages
  /\ ScraperIdle
  /\ docs = <<>>
  /\ NewsIdle
  /\ env = DefaultEnv
  /\ SchedulerIdle
  /\ FrontendIdle

NextScraper ==
  \/ ExtractContentFromLink
  \/ AxiosRejects
  \/ ParseThrows
  \/ AxiosResolves

\* One call of extractContentFromLink.
SpecScraper == InitScraper /\ [][NextScraper]_vars

\* The collection is empty, and no client has asked for a page.
InitNews ==
  /\ JobIdle
  /\ MODELS = <<1>>
  /\ SummarizerIdle
  /\ rssFeeds = <<>>
  /\ SamplerIdle
  /\ page = NoPage
  /\ ScraperIdle
  /\ docs = <<>>
  /\ NewsIdle
  /\ env = DefaultEnv
  /\ SchedulerIdle
  /\ FrontendIdle

NextNews ==
  \/ Tick
  \/ Construct
  \/ \E d \in 1..MaxDocs : Land(d)
  \/ \E lim \in 1..MaxLimit : FetchFirstPage(lim)
  \/ \E p \in 2..MaxDocs : FetchPage(p)

\* One client paging through GET /news while Articles are created.
SpecNews == InitNews /\ [][NextNews]_vars

\* The scheduler process is about to start, in any environment.
InitScheduler ==
  /\ JobIdle
  /\ MODELS = <<1>>
  /\ SummarizerIdle
  /\ rssFeeds = <<>>
  /\ SamplerIdle
  /\ page = NoPage
  /\ ScraperIdle
  /\ docs = <<>>
  /\ NewsIdle
  /\ env \in Envs
  /\ SchedulerIdle
  /\ FrontendIdle

NextScheduler ==
  \/ Boot
  \/ ConnectResolves
  \/ ConnectRejects
  \/ \E n \in Counts : CountResolves(n)
  \/ CountRejects
  \/ InitialResolves
  \/ InitialRejects
  \/ CronFires
  \/ \E k \in 1..MaxFires, outcome \in {"resolved", "rejected"} :
       RecurringSettles(k, outcome)
  \/ Shutdown
  \/ CloseSettles

\* One life of the scheduler process.
SpecScheduler == InitScheduler /\ [][NextScheduler]_vars

\* The page is about to load, with the scope and the read markers an
\* earlier visit left in localStorage.
InitFrontend ==
  /\ JobIdle
  /\ MODELS = <<1>>
  /\ SummarizerIdle
  /\ rssFeeds = <<>>
  /\ SamplerIdle
  /\ page = NoPage
  /\ ScraperIdle
  /\ docs = <<>>
  /\ NewsIdle
  /\ env = DefaultEnv
  /\ SchedulerIdle
  /\ navScope \in Scopes
  /\ snapshotIds = <<>>
  /\ navIdx = 0
  /\ atEnd = FALSE
  /\ card = <<"none">>
  /\ cacheRef = NoCache
  /\ readMap \in SUBSET Ids
  /\ pending = NoBuild

NextFrontend ==
  \/ Load
  \/ \E nextScope \in Scopes, fresh \in BOOLEAN : SetScope(nextScope, fresh)
  \/ Refetch
  \/ \E caller \in {"boot", "setScope"}, cache \in Caches :
       BuildResolves(caller, cache)
  \/ \E caller \in {"boot", "setScope"} : BuildRejects(caller)
  \/ HandleNext
  \/ HandlePrev
  \/ \E id \in Ids : Expire(id)

\* One visit of the page.
SpecFrontend == InitFrontend /\ [][NextFrontend]_vars

\* ------------------------------------------------------------------ claims
Returned(r, i) == pc[r][i] \in {"returned", "settled"}

InFlight(r) == {i \in DOMAIN pc[r] : pc[r][i] \in InFlightPcs}

Outcomes == {Saved, Errored} \cup {Skipped(x) : x \in Reasons}

With(r, res) == {i \in DOMAIN ret[r] : ret[r][i] = res}

Occurrences(seq, x) == Cardinality({k \in 1..Len(seq) : seq[k] = x})

IsPrefix(s, t) == Len(s) <= Len(t) /\ s = SubSeq(t, 1, Len(s))

Stages == <<"worker", "findOne", "extract", "summarize", "create">>

RECURSIVE Total(_)
Total(f) ==
  IF DOMAIN f = {} THEN 0
  ELSE LET x == CHOOSE y \in DOMAIN f : TRUE
       IN f[x] + Total([y \in DOMAIN f \ {x} |-> f[y]])

ZeroStats == [saved |-> 0, errors |-> 0, skipped |-> [x \in {} |-> 0]]

C2_ConcurrencyBound ==
  \A r \in Runs : Cardinality(InFlight(r)) <= CONCURRENCY

\* The pool is full, a candidate waits in the queue and one awaits the store.
C2_Witness ==
  /\ Cardinality(InFlight(1)) = CONCURRENCY
  /\ queue[1] # <<>>
  /\ \E i \in DOMAIN pc[1] : pc[1][i] = "findOne"

\* The pipelines: candidate i of run r.
Pipelines == UNION {{<<r, i>> : i \in DOMAIN pc[r]} : r \in Runs}

LinkOf(p) == articles[p[1]][p[2]].link

StoredUnder(link) == {d \in store : d.link = link}

Called(p, what) == Occurrences(calls[p[1]][p[2]], what) > 0

\* Two pipelines of one link both passed the pre-check, the scrape and the
\* summary (both called Article.create) and both returned.
BothWrote(p, q) ==
  /\ p # q
  /\ LinkOf(p) # 0
  /\ LinkOf(p) = LinkOf(q)
  /\ Called(p, "create") /\ Called(q, "create")
  /\ Returned(p[1], p[2]) /\ Returned(q[1], q[2])

\* ... and neither write failed for a reason other than the unique index.
Raced(p, q) ==
  /\ BothWrote(p, q)
  /\ scope[p[1]][p[2]].e \in {"", "E11000"}
  /\ scope[q[1]][q[2]].e \in {"", "E11000"}

C4_DrainedBeforeComplete ==
  \A r \in Runs :
    runPc[r] \in {"resolved", "done"} /\ articles[r] # <<>> =>
      /\ queue[r] = <<>>
      /\ active[r] = 0
      /\ \A i \in DOMAIN pc[r] : pc[r][i] = "settled"
      /\ Len(results[r]) = Len(articles[r])
      /\ \A k \in 1..Len(jobs) : jobs[k].run = r => jobs[k].kind = "tally"

\* A run over more candidates than the cap is done.
C4_Witness ==
  /\ runPc[1] = "done"
  /\ Len(articles[1]) > CONCURRENCY
  /\ \E i \in DOMAIN ret[1] : ret[1][i] = Saved

\* The candidates of run r whose Article.create failed, the unique index
\* apart.
WriteFailed(r) ==
  {i \in DOMAIN scope[r] :
     Called(<<r, i>>, "create") /\ scope[r][i].e \in {"ValidationError", "other"}}

\* A step in which some write of run r fails.
WriteFails(r, i) == i \notin WriteFailed(r) /\ i \in WriteFailed(r)'

C6_StagesInOrder ==
  \A p \in Pipelines :
    LET r == p[1]
        i == p[2]
        n == Len(calls[r][i])
    IN /\ IsPrefix(calls[r][i], Stages)
       /\ scope[r][i].existing => ~Called(p, "extract")
       /\ Called(p, "summarize") => ~ShortContent(scope[r][i].content)
       /\ Called(p, "create") => ~BadSummary(scope[r][i].summary)
       /\ Returned(r, i) =>
            /\ ret[r][i] = Skipped("missing_fields") => n = 1
            /\ ret[r][i] = Skipped("duplicate") => n = 2
            /\ ret[r][i] = Skipped("short_content") => n = 3
            /\ ret[r][i] = Skipped("bad_summary") => n = 4
            /\ ret[r][i] \in {Saved, Skipped("duplicate_race")} => n = 5
            /\ ret[r][i] = Errored => n \in {2, 5}

\* One candidate stopped at the pre-check, one at the content gate and one
\* at the summary gate.
C6_Witness ==
  /\ \E i \in DOMAIN ret[1] : Returned(1, i) /\ ret[1][i] = Skipped("duplicate")
  /\ \E i \in DOMAIN ret[1] :
       Returned(1, i) /\ ret[1][i] \in {Skipped("short_content"), Skipped("bad_summary")}

\* What a step adds to the store.
Added == store' \ store

\* C7: a step never removes or changes a stored Article; a candidate that
\* returns anything but saved leaves the store as it is, and one that
\* returns saved adds exactly one Article, under its own link.
C7_OnlyInserts ==
  [][/\ store \subseteq store'
     /\ \A r \in Runs : \A i \in DOMAIN ret[r] \cap DOMAIN ret'[r] :
          ret'[r][i] # ret[r][i] =>
            IF ret'[r][i] = Saved
              THEN /\ Cardinality(Added) = 1
                   /\ \A d \in Added : d.link = articles[r][i].link
                   /\ StoredUnder(articles[r][i].link) = {}
              ELSE store' = store
     /\ Added # {} =>
          \E r \in Runs : \E i \in DOMAIN ret[r] :
            ret[r][i] # Saved /\ ret'[r][i] = Saved]_vars

\* An Article was saved next to the one an earlier run stored, and another
\* candidate was skipped.
C7_Witness ==
  /\ PreStored \in store
  /\ Cardinality(store) > 1
  /\ \E i \in DOMAIN ret[1] : ret[1][i] = Skipped("duplicate")

\* C8: every stored Article has a title, a link and a summary of at least
\* 10 characters made from content of at least 200 characters, and was
\* stored by an earlier run or by a candidate of that link whose last call
\* was Article.create and which returned saved.
C8_NoPartialArticle ==
  \A d \in store :
    /\ d.title # <<>>
    /\ d.link # 0
    /\ d.summary >= MIN_SUMMARY_LEN
    /\ d.from >= MIN_CONTENT_LEN
    /\ \/ d = PreStored
       \/ \E p \in Pipelines :
            /\ LinkOf(p) = d.link
            /\ ret[p[1]][p[2]] = Saved
            /\ calls[p[1]][p[2]] = Stages

\* An Article is stored while another candidate is between its scrape and
\* its insert.
C8_Witness ==
  /\ \E d \in store : d # PreStored
  /\ \E i \in DOMAIN pc[1] : pc[1][i] \in {"extract", "summarize", "create"}

\* The items of a sequence.
Range(seq) == {seq[k] : k \in 1..Len(seq)}

\* C9: a candidate is handed to the worker at most once, exactly once when
\* the run is done, and is on the queue only until it is dispatched: one
\* that has ended in error or a skip is never queued again.
C9_HandedOnce ==
  \A r \in Runs : \A i \in DOMAIN pc[r] :
    /\ Occurrences(calls[r][i], "worker") <= 1
    /\ Occurrences(queue[r], i) = (IF pc[r][i] = "queued" THEN 1 ELSE 0)
    /\ runPc[r] = "done" => Occurrences(calls[r][i], "worker") = 1

\* A run is done in which a candidate ended in error and one was skipped.
C9_Witness ==
  /\ runPc[1] = "done"
  /\ \E i, j \in DOMAIN ret[1] :
       ret[1][i] = Errored /\ ret[1][j] = Skipped("short_content")

\* C10 as stated: a run over an empty list returns zero-valued stats.
C10_ReturnsZeroStats ==
  \A r \in Runs :
    runPc[r] = "done" /\ articles[r] = <<>> => retval[r] = {ZeroStats}

\* C10, amended: a run over an empty list is done at once: no worker is
\* dispatched, nothing is called, the store is as it was, and the run
\* computes no stats and returns nothing.
C10_EmptyRunEndsAtOnce ==
  \A r \in Runs :
    runPc[r] = "done" /\ articles[r] = <<>> =>
      /\ stats[r] = {}
      /\ retval[r] = {}
      /\ pc[r] = <<>> /\ calls[r] = <<>> /\ results[r] = <<>>
      /\ queue[r] = <<>> /\ active[r] = 0
      /\ \A k \in 1..Len(jobs) : jobs[k].run # r
      /\ (\A q \in Runs \ {r} : runPc[q] = "idle") => store \in {{}, {PreStored}}

\* A run over an empty list is done.
C10_Witness == runPc[1] = "done" /\ articles[1] = <<>>

\* ------------------------------------------------------ summarizer claims
\* The last provider call threw.
Threw == last \notin {"", "text", "empty"}

\* The error it threw.
TheErr == CHOOSE e \in lastErr : TRUE

\* C11: one summarize call makes at most 2N provider calls, N the length of
\* the model list, whatever the provider answers; when every answer was a
\* rate-limit signal it has returned the empty string.
C11_AtMostTwoRounds ==
  /\ Len(called) <= 2 * Len(MODELS)
  /\ turns <= 2 * Len(MODELS)
  /\ sPc = "returned" /\ seen = {"rate_limit"} => summary = {<<>>}

\* A provider that only ever signalled a rate limit was called 2N times
\* over several models, and the empty string came back.
C11_Witness ==
  /\ sPc = "returned"
  /\ seen = {"rate_limit"}
  /\ Len(MODELS) > 1
  /\ Len(called) = 2 * Len(MODELS)
  /\ summary = {<<>>}

\* C12: once a provider call has failed with an error that is neither a
\* rate-limit signal nor retryable, summarize has returned the empty string
\* and makes no further provider call, whatever is left of the budget.
C12_StopsOnOtherError ==
  /\ [](Threw /\ ~isRateLimit(TheErr) /\ ~isRetryable(TheErr) =>
          /\ sPc = "returned"
          /\ summary = {<<>>}
          /\ ~ENABLED NextSummarizer)
  /\ [][sPc = "returned" => called' = called /\ sPc' = "returned"]_vars

\* The first call failed for good with the budget and other models left.
C12_Witness ==
  /\ Threw
  /\ ~isRateLimit(TheErr) /\ ~isRetryable(TheErr)
  /\ sPc = "returned"
  /\ Len(MODELS) > 1
  /\ Len(called) = 1

\* C13: when a provider call follows another one, the 400 ms wait lies
\* between them if and only if the earlier call failed with a retryable
\* error that is no rate-limit signal; after an empty response or a
\* rate-limit signal there is no wait.  The later call goes to the next model.
C13_BackoffOnlyWhenRetryable ==
  sPc = "calling" /\ Len(called) >= 2 =>
    /\ slept \in {0, BACKOFF_MS}
    /\ slept = BACKOFF_MS <=>
         Threw /\ isRetryable(TheErr) /\ ~isRateLimit(TheErr)
    /\ last = "empty" \/ (Threw /\ isRateLimit(TheErr)) => slept = 0
    /\ called[Len(called)] = (called[Len(called) - 1] % Len(MODELS)) + 1

\* A call issued right after an error that is both a rate-limit signal and
\* retryable by its status.
C13_Witness ==
  /\ sPc = "calling" /\ Len(called) >= 2
  /\ Threw
  /\ isRateLimit(TheErr)
  /\ TheErr.status >= 500
  /\ slept = 0

\* C14: summarize never raises and, having started, completes with a
\* string; the string is empty exactly when no attempt produced a non-empty
\* cleaned summary, and the orchestrator's gate turns the empty string into
\* skipped(bad_summary).
C14_AlwaysAString ==
  /\ [](sPc # "threw")
  /\ [](sPc = "returned" =>
          /\ Cardinality(summary) = 1
          /\ \A str \in summary : str \in Seq(XTokens)
          /\ summary = {<<>>} <=> "text" \notin seen
          /\ \A str \in summary : str = <<>> => BadSummary(Len(str)))
  /\ [](sPc # "returned" => summary = {})
  /\ (sPc \in {"calling", "sleeping"} ~> sPc = "returned")

\* The call ended on an error that carries neither status nor message, after
\* an earlier empty completion.
C14_Witness ==
  /\ sPc = "returned"
  /\ summary = {<<>>}
  /\ Threw
  /\ TheErr = [status |-> 0, msg |-> {}]
  /\ "empty" \in seen

\* X neither starts nor ends with whitespace and does not begin with a
\* "summary:" or "summary-" of its own.
Plain(x) ==
  \/ x = <<>>
  \/ /\ x[1] # " "
     /\ x[Len(x)] # " "
     /\ ~(Lower(x[1]) = "summary" /\ Len(x) >= 2 /\ x[2] \in {":", "-"})

\* C15 as stated: for every text X, cleaning "Here's the summary: X"
\* yields exactly X.
C15_CleanYieldsX ==
  \A x \in Texts(MaxText) : raw = HeresTheSummary \o x => out = x

\* C15, amended: cleaning "Here's the summary: X" yields exactly X when X
\* neither starts nor ends with whitespace and does not begin with a
\* "summary:" lead-in of its own; otherwise it yields X without that lead-in
\* and the surrounding whitespace, which is not X.
C15_CleanYieldsPlainX ==
  \A x \in Texts(MaxText) :
    raw = HeresTheSummary \o x =>
      /\ Plain(x) => out = x
      /\ ~Plain(x) => out # x /\ out = Trim(StripSummary(x))

\* The completion "Here's the summary: w w" was cleaned to "w w".
C15_Witness ==
  \E x \in Texts(MaxText) :
    /\ Len(x) > 1
    /\ Plain(x)
    /\ raw = HeresTheSummary \o x
    /\ out = x
    /\ summary = {x}

\* ---------------------------------------------------- feed sampler claims
\* The feeds fetchOne has returned a sample for.
Fetched == {f \in DOMAIN samples : f < feedNo /\ rssFeeds[f].ok}

\* The list fetchRSSArticles returned.
Returned_ == CHOOSE l \in sampled : TRUE

\* C16: from a feed of at least 100 parsed items fetchOne returns exactly 10
\* candidates in initial mode and 3 or 4 in recurring mode, and in recurring
\* mode each of the two counts is one fetchOne may draw.
C16_SampleSize ==
  /\ \A f \in Fetched :
       rssFeeds[f].size >= 100 =>
         /\ mode = "initial" => Len(samples[f]) = 10
         /\ mode = "recurring" => Len(samples[f]) \in {3, 4}
  /\ fPc = "fetching" /\ mode = "initial" =>
       {pick[2] : pick \in Picks(mode)} = {10}
  /\ fPc = "fetching" /\ mode = "recurring" =>
       {pick[2] : pick \in Picks(mode)} = {3, 4}

\* A recurring run drew 3 candidates from one feed of 100 items or more and
\* 4 from another.
C16_Witness ==
  /\ mode = "recurring"
  /\ \E f, g \in Fetched :
       /\ rssFeeds[f].size >= 100 /\ rssFeeds[g].size >= 100
       /\ Len(samples[f]) = 3
       /\ Len(samples[g]) = 4

\* The look-back of a mode.
Limit(m) == IF m = "initial" THEN 100 ELSE 50

\* Item q of feed f is published later than item p.
Later(f, q, p) ==
  \E tq \in Item(f, q).isoDate, tp \in Item(f, p).isoDate : tq > tp

\* C17 as stated: the candidates sampled from a feed are distinct parsed
\* items, each among the 100 (initial) or 50 (recurring) most recently
\* published items of the feed, in whatever order the feed lists its items.
\* An item without a date is not held against the claim.
C17_FromMostRecent ==
  \A f \in Fetched :
    /\ \A i, j \in 1..Len(samples[f]) :
         i # j => samples[f][i].item # samples[f][j].item
    /\ \A k \in 1..Len(samples[f]) :
         LET p == samples[f][k].item[2]
         IN Cardinality({q \in 1..rssFeeds[f].size : Later(f, q, p)})
              < Limit(mode)

\* C17, what the code does: the candidates sampled from a feed are distinct
\* parsed items, each among the first 100 (initial) or 50 (recurring) items
\* the feed lists.
C17_FromListedPrefix ==
  \A f \in Fetched :
    /\ \A i, j \in 1..Len(samples[f]) :
         i # j => samples[f][i].item # samples[f][j].item
    /\ \A k \in 1..Len(samples[f]) :
         /\ samples[f][k].item[1] = f
         /\ samples[f][k].item[2] \in 1..Limit(mode)

\* Two candidates have the same key: the same non-empty link or, both
\* without a link, the same title and source.
SameKey(a, b) ==
  \/ a.link # 0 /\ a.link = b.link
  \/ a.link = 0 /\ b.link = 0 /\ a.title = b.title /\ a.source = b.source

\* Candidate k of allArticles is the first of its key.
FirstOfKey(k) == \A m \in 1..(k - 1) : ~SameKey(allArticles[m], allArticles[k])

\* C18: the returned list holds no two candidates of one key, and of the
\* sampled candidates of one key it holds the first in feed-processing
\* order, and only that.
C18_FirstOfEachKey ==
  fPc = "returned" =>
    LET l == Returned_
    IN /\ \A i, j \in 1..Len(l) : i # j => ~SameKey(l[i], l[j])
       /\ \A k \in 1..Len(allArticles) :
            FirstOfKey(k) => \E i \in 1..Len(l) : l[i] = allArticles[k]
       /\ \A i \in 1..Len(l) :
            \E k \in 1..Len(allArticles) :
              FirstOfKey(k) /\ l[i] = allArticles[k]

\* Two feeds surfaced the same link and the first feed's candidate was
\* kept; a second candidate without link, of the same title and source as an
\* earlier one, was dropped as well.
C18_Witness ==
  /\ fPc = "returned"
  /\ \E k, m \in 1..Len(allArticles) :
       /\ k < m
       /\ allArticles[k].item[1] # allArticles[m].item[1]
       /\ allArticles[k].link # 0
       /\ SameKey(allArticles[k], allArticles[m])
       /\ FirstOfKey(k)
       /\ \E i \in 1..Len(Returned_) : Returned_[i] = allArticles[k]
  /\ \E k, m \in 1..Len(allArticles) :
       /\ k < m
       /\ allArticles[k].link = 0
       /\ SameKey(allArticles[k], allArticles[m])

\* C19: the returned list is ordered by publication time, newest first,
\* every candidate without a date behind every candidate with one.
C19_NewestFirstUndatedLast ==
  fPc = "returned" =>
    LET l == Returned_
    IN \A i, j \in 1..Len(l) :
         i < j =>
           /\ l[i].pubDate = {} => l[j].pubDate = {}
           /\ \A ti \in l[i].pubDate, tj \in l[j].pubDate : ti >= tj

\* A returned list with dated candidates of different times and an undated
\* one, which the sort had to reorder.
C19_Witness ==
  /\ fPc = "returned"
  /\ Returned_ # Dedupe(allArticles, {}, <<>>)
  /\ \E i, j, k \in 1..Len(Returned_) :
       /\ i < j /\ j < k
       /\ \E ti \in Returned_[i].pubDate, tj \in Returned_[j].pubDate : ti > tj
       /\ Returned_[k].pubDate = {}

\* What feed f has contributed to allArticles.
Contribution(f) ==
  SelectSeq(allArticles, LAMBDA a : a.item[1] = f)

\* C20: fetchRSSArticles never raises; every fetch that settles, failed or
\* not, moves it on to the next feed, and after the last one it has returned
\* a list.  A feed whose fetch or parse failed has contributed nothing,
\* every other feed was fetched and has contributed its sample, and the list
\* is empty when every feed failed.
C20_NeverRaises ==
  /\ [](fPc # "threw")
  /\ [](fPc = "returned" =>
          /\ Cardinality(sampled) = 1
          /\ feedNo = Len(rssFeeds) + 1
          /\ \A f \in 1..Len(rssFeeds) :
               IF rssFeeds[f].ok
                 THEN /\ Len(samples[f]) > 0
                      /\ Contribution(f) = samples[f]
                 ELSE /\ Contribution(f) = <<>>
          /\ (\A f \in 1..Len(rssFeeds) : ~rssFeeds[f].ok) => Returned_ = <<>>)
  /\ [](fPc # "returned" => sampled = {})
  /\ [](fPc = "fetching" <=> feedNo \in 1..Len(rssFeeds))
  /\ [][feedNo' = feedNo + 1]_vars

\* The first feed failed, the second one was still fetched and its sample
\* returned.
C20_Witness ==
  /\ fPc = "returned"
  /\ Len(rssFeeds) = 2
  /\ ~rssFeeds[1].ok
  /\ rssFeeds[2].ok
  /\ Len(samples[2]) > 0
  /\ Len(Returned_) > 0

\* ------------------------------------------------------- the two gates
\* C25: when the extraction of a candidate that passed the pre-check answers
\* with content of some length, the candidate returns skipped(short_content)
\* exactly when that length is 0 or below 200, and goes on to the summarizer
\* otherwise; when the summarizer answers with a summary of some length, the
\* candidate returns skipped(bad_summary) exactly when that length is 0 or
\* below 10, and goes on to Article.create otherwise.  Content of exactly 200
\* and a summary of exactly 10 characters pass.
C25_GatesAtThresholds ==
  [][\A r \in Runs : \A i \in DOMAIN pc[r] :
       /\ \A len \in ContentLens :
            ExtractReturnsWith(r, i, len) =>
              /\ ~MissingFields(articles[r][i])
              /\ calls[r][i] = <<"worker", "findOne", "extract">>
              /\ ret'[r][i] = Skipped("short_content") <=> (len = 0 \/ len < 200)
              /\ pc'[r][i] = "summarize" <=> ~(len = 0 \/ len < 200)
              /\ len = 200 => pc'[r][i] = "summarize" /\ scope'[r][i].content = 200
       /\ \A len \in SummaryLens :
            SummarizeReturnsWith(r, i, len) =>
              /\ scope[r][i].content >= 200
              /\ ret'[r][i] = Skipped("bad_summary") <=> (len = 0 \/ len < 10)
              /\ pc'[r][i] = "create" <=> ~(len = 0 \/ len < 10)
              /\ len = 10 => pc'[r][i] = "create" /\ scope'[r][i].summary = 10]_vars

\* A candidate was saved from content of exactly 200 characters and a
\* summary of exactly 10, next to one skipped at each gate.
C25_Witness ==
  /\ \E i \in DOMAIN ret[1] :
       /\ ret[1][i] = Saved
       /\ scope[1][i].content = 200
       /\ scope[1][i].summary = 10
  /\ \E i \in DOMAIN ret[1] : ret[1][i] = Skipped("short_content")

\* ------------------------------------------- the pool with rejecting workers
\* C26: in a run whose worker calls all finish, by returning or by
\* rejecting, candidates wait in the queue only while the pool runs, and a
\* running pool leads to a state in which the run is complete, the pool has
\* resolved with an empty queue and nothing in flight, and every candidate
\* has been dispatched and has settled, also over lists longer than the cap.
C26_EveryRunCompletes ==
  /\ [](\A i \in DOMAIN pc[1] : pc[1][i] = "queued" => runPc[1] = "pool")
  /\ (runPc[1] = "pool")
       ~> /\ runPc[1] = "done"
          /\ queue[1] = <<>>
          /\ active[1] = 0
          /\ \A i \in DOMAIN pc[1] : pc[1][i] = "settled"

\* A run over more candidates than the cap is done, one of its worker calls
\* having rejected and another returned.
C26_Witness ==
  /\ runPc[1] = "done"
  /\ Len(articles[1]) > CONCURRENCY + 1
  /\ \E i \in DOMAIN ret[1] : ret[1][i] = RejectedPromise /\ scope[1][i].e = "falsy"
  /\ \E i \in DOMAIN ret[1] : pc[1][i] = "settled" /\ ret[1][i] \in Outcomes

\* An entry the reducer of the run summary counts: as saved, under a skip
\* reason, or as an error.
Counted(res) == res.saved \/ res.skipped # "" \/ res.error

\* C27: once the pool has resolved, its result list holds one entry per
\* item, and every entry, also that of an item whose worker call rejected,
\* is one the tally counts as saved, skipped or error.
C27_EveryEntryCounted ==
  runPc[1] \in {"resolved", "done"} /\ articles[1] # <<>> =>
    /\ Len(results[1]) = Len(articles[1])
    /\ \A k \in 1..Len(results[1]) : Counted(results[1][k])

\* What holds of the result list: one entry per item, that of an item whose
\* worker call rejected being the rejected promise, which the tally passes
\* over, so that the three counts add up to the number of items whose worker
\* call returned.
C27_OneEntryPerItem ==
  runPc[1] \in {"resolved", "done"} /\ articles[1] # <<>> =>
    /\ Len(results[1]) = Len(articles[1])
    /\ \A res \in Outcomes \cup {RejectedPromise} :
         Cardinality({k \in 1..Len(results[1]) : results[1][k] = res})
           = Cardinality({i \in DOMAIN ret[1] : ret[1][i] = res})
    /\ stats[1] # {} =>
         \A st \in stats[1] :
           st.saved + st.errors + Total(st.skipped)
             = Cardinality({i \in DOMAIN ret[1] : ret[1][i] # RejectedPromise})

\* C28: no candidate is dispatched to a worker, and no worker call starts,
\* before every candidate that precedes it in the list has been dispatched
\* and its worker call has started; the queue holds the candidates not yet
\* dispatched in list order.
C28_DispatchedInListOrder ==
  /\ \A i, j \in DOMAIN pc[1] :
       i < j =>
         /\ pc[1][j] # "queued" => pc[1][i] # "queued"
         /\ calls[1][j] # <<>> => calls[1][i] # <<>>
  /\ \A k \in 1..(Len(queue[1]) - 1) : queue[1][k] < queue[1][k + 1]
  /\ \A k, l \in 1..Len(jobs) :
       k < l /\ jobs[k].kind = "worker" /\ jobs[l].kind = "worker"
         => jobs[k].item < jobs[l].item

\* A later candidate has settled while the first one is still in flight, a
\* candidate beyond the cap has been dispatched and another still waits.
C28_Witness ==
  /\ pc[1] # <<>>
  /\ pc[1][1] \in InFlightPcs
  /\ \E j \in DOMAIN pc[1] : j > 1 /\ pc[1][j] = "settled"
  /\ \E j \in DOMAIN pc[1] : j > CONCURRENCY /\ pc[1][j] \notin {"queued", "settled"}
  /\ queue[1] # <<>>

\* The candidates handed to a worker whose `.finally` has not run.
Dispatched(r) == {i \in DOMAIN pc[r] : pc[r][i] \notin {"queued", "settled"}}

\* C29: after every call of next(), the initial one and each one made when
\* a worker call has settled, a non-empty queue means that exactly 5
\* candidates are in flight.
C29_WorkConserving ==
  \A r \in Runs :
    /\ active[r] = Cardinality(Dispatched(r))
    /\ queue[r] # <<>> => active[r] = CONCURRENCY

\* A worker call has settled, next() has refilled the slot, and a candidate
\* still waits.
C29_Witness ==
  /\ queue[1] # <<>>
  /\ \E i \in DOMAIN pc[1] : pc[1][i] = "settled"
  /\ active[1] = CONCURRENCY

\* ------------------------------------------------------ the model rotation
\* How often model m was called in this summarize call.
TimesCalled(m) == Cardinality({k \in 1..Len(called) : called[k] = m})

\* C30: the k-th provider call of a summarize call goes to model number
\* (k-1) mod N of the list, whether or not a summarize call returned before
\* it and wherever that one's cursor stood; no model is called more than
\* twice in one summarize call; and a summarize call starts with the cursor
\* at the first model.
C30_RoundRobinFromFirst ==
  /\ [](/\ \A k \in 1..Len(called) : called[k] = MODELS[((k - 1) % Len(MODELS)) + 1]
        /\ \A k \in 1..Len(MODELS) : TimesCalled(MODELS[k]) <= 2
        /\ sPc = "calling" => MODELS[idx + 1] = called[Len(called)])
  /\ [][(sPc \in {"idle", "returned"} /\ sPc' = "calling")
         => (called' = <<MODELS[1]>> /\ idx' = 0)]_vars

\* A second summarize call has gone once around a list of three models and
\* is back at the first one.
C30_Witness ==
  /\ earlier
  /\ sPc = "calling"
  /\ Len(MODELS) = 3
  /\ called = <<1, 2, 3, 1>>

\* ------------------------------------------------------- extractor claims
\* The call returned what steps 1 to 4 made of the page.
Scraped(x) == ePc = "returned" /\ x \in extracted /\ x = Extract(page)

\* The matching selectors whose text is longer than 200 characters.
Substantial == {k \in 1..Len(page.matches) : page.matches[k] > 200}

\* The content is made of the text found under the k-th matching selector.
FromSelector(x, k) == x.content = Step3(page, Text(<<"selector", k>>, page.matches[k]))

\* The content is made of the <p> elements longer than 50 characters.
FromParagraphs(x) == x.content = Step3(page, Paragraphs(page.paragraphs))

\* C21: the content returned for a fetched page is the text of the first
\* known selector, in priority order, whose text is longer than 200
\* characters; when no selector has such a text, it is the concatenation of
\* the paragraphs longer than 50 characters and no selector's text.
C21_SelectorOrFallback ==
  \A x \in extracted :
    Scraped(x) =>
      IF Substantial # {}
        THEN \E k \in Substantial :
               /\ \A j \in Substantial : k <= j
               /\ FromSelector(x, k)
        ELSE /\ FromParagraphs(x)
             /\ x.content.src \in {<<>>, <<"p">>}

\* What holds of the content: with no selector text longer than 200, the
\* text of the last matching selector is kept when it has exactly 200
\* characters, and the paragraphs are used otherwise.
C21_LastSelectorKeptAt200 ==
  \A x \in extracted :
    Scraped(x) =>
      IF Substantial # {}
        THEN \E k \in Substantial :
               /\ \A j \in Substantial : k <= j
               /\ FromSelector(x, k)
        ELSE IF page.matches # <<>> /\ page.matches[Len(page.matches)] = 200
               THEN FromSelector(x, Len(page.matches))
               ELSE FromParagraphs(x)

\* The first of og:image, twitter:image and the first <img> that is there.
FirstAvailable == Or(page.og, Or(page.twitter, page.img))

\* C22: the image returned for a fetched page is the empty string when the
\* page has no og:image, no twitter:image and no <img>, and otherwise the
\* first of them that is there, resolved against the page URL.
C22_ImageOrEmpty ==
  \A x \in extracted :
    Scraped(x) =>
      IF FirstAvailable = NoUrl
        THEN x.image = NoUrl
        ELSE x.image = resolveImage(FirstAvailable, PageUrl)

\* What holds of the image: the first available reference resolved against
\* the page URL (or returned as it is when it cannot be parsed), and the
\* page URL itself when there is none.
C22_ImageOrPageUrl ==
  \A x \in extracted :
    Scraped(x) =>
      /\ x.image # NoUrl
      /\ IF FirstAvailable = NoUrl
           THEN x.image = PageUrl
           ELSE /\ x.image = resolveImage(FirstAvailable, PageUrl)
                /\ x.image[2] = FirstAvailable[2]
                /\ FirstAvailable[1] = "" => x.image[1] = PageUrl[1]
                /\ FirstAvailable[1] # "" => x.image = FirstAvailable

\* C23: extractContentFromLink never ends by throwing; when the request
\* fails, or parsing throws, it returns {content: '', image: ''}, content
\* which handleOneArticle's gate turns into skipped(short_content).
C23_FailureIsEmptyResult ==
  /\ [](ePc # "threw")
  /\ [](ePc = "returned" => Cardinality(extracted) = 1)
  /\ [][(AxiosRejects \/ ParseThrows) =>
          /\ ePc' = "returned"
          /\ extracted' = {[content |-> NoText, image |-> NoUrl]}
          /\ \A x \in extracted' : x.content.len = 0 /\ ShortContent(x.content.len)]_vars

\* The request for a page with a substantial article and an image failed,
\* and the call returned the empty result.
C23_Witness ==
  /\ ePc = "returned"
  /\ extracted = {EmptyResult}
  /\ Substantial # {}
  /\ page.og # NoUrl

\* ------------------------------------------------------- pagination claims
\* The pages the client received, one after the other.
RECURSIVE Concat(_, _)
Concat(g, nPages) == IF nPages = 0 THEN <<>> ELSE Concat(g, nPages - 1) \o g[nPages]

AllArticles == Concat(got, totalPages)

\* How often document d is among the articles the client received.
TimesReceived(d) == Cardinality({k \in 1..Len(AllArticles) : AllArticles[k] = d})

\* C24: when the client has page 1 and the pages 2..N it asked for with the
\* snapshot of page 1, Articles having been inserted in between and none
\* deleted, no Article with a creation time after the snapshot is on any
\* page, and every Article in the collection with a creation time at or
\* before the snapshot is on the pages exactly once.
C24_SnapshotFreezesPages ==
  nPc = "done" =>
    \A t \in snapshot :
      \A d \in Landed :
        IF docs[d].createdAt > t THEN TimesReceived(d) = 0 ELSE TimesReceived(d) = 1

\* What holds of the pages: no Article with a creation time after the
\* snapshot is on any of them, and no page holds more than `limit` Articles.
C24_NothingNewerThanSnapshot ==
  \A t \in snapshot :
    \A p \in DOMAIN got :
      /\ Len(got[p]) <= pageLimit
      /\ \A k \in 1..Len(got[p]) :
           /\ got[p][k] \in Landed
           /\ docs[got[p][k]].createdAt <= t

\* ------------------------------------------------------- scheduler claims
\* The step of boot that follows the count query.
CountSettles == bPc = "count" /\ bPc' \in {"initial", "up", "exit1"}

\* C31: at boot the initial run is started exactly when count, which is 0
\* after a failed count query, is below INITIAL_THRESHOLD, and only at the
\* step that follows the count query; while the initial run is running
\* the task is not registered and no recurring run has been started; and
\* when the initial run settles, with a failure as with a success, the
\* task is registered, given that CRON_EXPR is a valid expression.
C31_InitialThenRecurring ==
  /\ [](initialRun = "running" => ~scheduled /\ recurring = <<>>)
  /\ [](recurring # <<>> => scheduled)
  /\ [][/\ CountSettles =>
             (initialRun' = "running" <=>
                \E t \in 0..INITIAL_THRESHOLD_DEFAULT :
                  INITIAL_THRESHOLD(env) = <<t>> /\ bootCount' < t)
        /\ CountRejects => bootCount' = 0
        /\ (initialRun = "none" /\ initialRun' # "none") =>
             (CountSettles /\ initialRun' = "running")
        /\ (initialRun = "running" /\ initialRun' # "running") =>
             /\ initialRun' \in {"resolved", "rejected"}
             /\ scheduled' = Validate(CRON_EXPR(env))
        /\ (initialRun = "running" /\ initialRun' = "rejected"
              /\ Validate(CRON_EXPR(env))) => (scheduled' /\ bPc' = "up")
       ]_vars

\* A recurring run has been started after a failed initial run, which
\* was started for a count of 9 under the default threshold.
C31_Witness ==
  /\ initialRun = "rejected"
  /\ bootCount = INITIAL_THRESHOLD_DEFAULT - 1
  /\ env.INITIAL_THRESHOLD = "unset"
  /\ scheduled
  /\ recurring # <<>>

\* ------------------------------------------------------- navigation claims
\* The unread scope over a snapshot that is not empty.
UnreadOverSnapshot == navScope = "unread" /\ snapshotIds # <<>>

\* The all scope over a snapshot that is not empty.
AllOverSnapshot == navScope = "all" /\ snapshotIds # <<>>

\* The last article of the snapshot.
LastId == snapshotIds[Len(snapshotIds)]

\* C32: in the unread scope over a non-empty snapshot idx is an index of
\* the snapshot; Next on the last article shows the end card and sets atEnd
\* with idx unmoved; Next while atEnd changes nothing; Prev while atEnd
\* shows the last article, moves idx to it and clears atEnd. In the all
\* scope Next on the last article and Prev on the first change nothing.
C32_NextPrevAtTheEnds ==
  /\ [](UnreadOverSnapshot => navIdx \in 0..(Len(snapshotIds) - 1))
  /\ [](UnreadOverSnapshot /\ atEnd => navIdx = Len(snapshotIds) - 1)
  /\ [][/\ (HandleNext /\ UnreadOverSnapshot /\ ~atEnd
              /\ navIdx = Len(snapshotIds) - 1) =>
             (card' = <<"empty">> /\ atEnd' /\ navIdx' = navIdx)
        /\ (HandleNext /\ UnreadOverSnapshot /\ atEnd) =>
             UNCHANGED frontendVars
        /\ (HandlePrev /\ UnreadOverSnapshot /\ atEnd) =>
             /\ card' = <<"article", LastId>>
             /\ ~atEnd'
             /\ navIdx' = Len(snapshotIds) - 1
        /\ (HandleNext /\ AllOverSnapshot
              /\ navIdx = Len(snapshotIds) - 1) => UNCHANGED frontendVars
        /\ (HandlePrev /\ AllOverSnapshot /\ navIdx = 0) =>
             UNCHANGED frontendVars
       ]_vars

\* Next on the last of several unread articles has shown the end card.
C32_Witness ==
  /\ UnreadOverSnapshot
  /\ Len(snapshotIds) > 1
  /\ navIdx = Len(snapshotIds) - 1
  /\ atEnd
  /\ card = <<"empty">>
  /\ LastId \in readMap

====
